---- MODULE Spec2Model ----
(***************************************************************************)
(* Model of core/dataprocessor.py, class Processor: the derived-data       *)
(* pipeline (smoothing, signal-window locator, cropping, frequency         *)
(* mapping, parameter extraction) and its two memo dictionaries _cache     *)
(* and _precomputed.                                                       *)
(*                                                                         *)
(* Numbers.  A Python/numpy float is modelled as an exact rational, the    *)
(* pair <<n, d>> in lowest terms with d > 0.  Sample indices, lengths and  *)
(* point counts are integers, as in the code.  A value that went through   *)
(* _round_data is a decimal with 12 fractional digits, kept as three       *)
(* groups of four digits.                                                  *)
(*                                                                         *)
(* Data frames.  A pandas DataFrame is a record of equally long column     *)
(* sequences.  The column names of the code are Cyrillic strings; the      *)
(* model writes Time for the time column and Amplitude for the amplitude   *)
(* column.  A dict is a function; the insertion order of the channel       *)
(* mapping, which every derived dict inherits, is kept in channel_order.   *)
(*                                                                         *)
(* Exceptions.  Every method is an operator from the object (the record    *)
(* self) to a record [self, exc, val]: the object after the call, the      *)
(* name of the exception that left the method ("none" when it returned),   *)
(* and the returned value.                                                 *)
(***************************************************************************)
EXTENDS Integers, Sequences, FiniteSets, TLC

(***************************************************************************)
(* Evaluation.  One(S) is the element of a singleton S.  A value that is   *)
(* used more than once is bound by  One({ e(v) : v \in {value} }),  and    *)
(* the arithmetic is done by functions applied to the argument values, so  *)
(* that every call is evaluated once.                                      *)
(***************************************************************************)
One(S) == CHOOSE v \in S : TRUE

(***************************************************************************)
(* Rational arithmetic (Python float operators + - * / and comparisons).   *)
(***************************************************************************)
Abs(i) == IF i < 0 THEN -i ELSE i

GcdOf[p \in Nat \X Nat] == IF p[2] = 0 THEN p[1] ELSE GcdOf[<<p[2], p[1] % p[2]>>]

RatOf[p \in Int \X Int] ==
    IF p[1] = 0 THEN <<0, 1>>
    ELSE One({ IF p[2] < 0 THEN <<(-p[1]) \div g, (-p[2]) \div g>>
                            ELSE <<p[1] \div g, p[2] \div g>> :
               g \in {GcdOf[<<Abs(p[1]), Abs(p[2])>>]} })

\* the float n / d
Rat(n, d) == RatOf[<<n, d>>]
R(i) == <<i, 1>>

Floats == Int \X Int

RAddOf[p \in Floats \X Floats] ==
    Rat(p[1][1] * p[2][2] + p[2][1] * p[1][2], p[1][2] * p[2][2])
RSubOf[p \in Floats \X Floats] ==
    Rat(p[1][1] * p[2][2] - p[2][1] * p[1][2], p[1][2] * p[2][2])
RMulOf[p \in Floats \X Floats] == Rat(p[1][1] * p[2][1], p[1][2] * p[2][2])
RDivOf[p \in Floats \X Floats] == Rat(p[1][1] * p[2][2], p[1][2] * p[2][1])
RLtOf[p \in Floats \X Floats] == p[1][1] * p[2][2] < p[2][1] * p[1][2]
RLeOf[p \in Floats \X Floats] == p[1][1] * p[2][2] <= p[2][1] * p[1][2]

RAdd(x, y) == RAddOf[<<x, y>>]
RSub(x, y) == RSubOf[<<x, y>>]
RMul(x, y) == RMulOf[<<x, y>>]
RDiv(x, y) == RDivOf[<<x, y>>]
RLt(x, y) == RLtOf[<<x, y>>]
RLe(x, y) == RLeOf[<<x, y>>]
RAbs(x) == <<Abs(x[1]), x[2]>>
IsZero(x) == x[1] = 0

\* int(x): truncation toward zero
TruncOf[x \in Floats] == IF x[1] < 0 THEN -((-x[1]) \div x[2]) ELSE x[1] \div x[2]
Trunc(x) == TruncOf[x]

\* the sum of the floats xs[lo..hi]
SumRange(xs, lo, hi) ==
    LET S[k \in (lo - 1)..hi] == IF k < lo THEN R(0) ELSE RAdd(S[k - 1], xs[k])
    IN  S[hi]

\* np.argmax / Series.idxmax on a default RangeIndex: the first position of
\* the maximum, 0-based.  np.argmin alike.  Only applied to non-empty xs.
ArgMax(xs) ==
    CHOOSE i \in 0..(Len(xs) - 1) :
        /\ \A j \in 1..i : RLt(xs[j], xs[i + 1])
        /\ \A j \in 1..Len(xs) : RLe(xs[j], xs[i + 1])

ArgMin(xs) ==
    CHOOSE i \in 0..(Len(xs) - 1) :
        /\ \A j \in 1..Len(xs) : RLe(xs[i + 1], xs[j])
        /\ \A j \in 1..i : RLt(xs[i + 1], xs[j])

\* Python slice xs[a : a + n] of a sequence (iloc too), for 0 <= a, 0 <= n
Slice(xs, a, n) ==
    LET lo == IF a > Len(xs) THEN Len(xs) ELSE a
        hi == IF a + n > Len(xs) THEN Len(xs) ELSE a + n
    IN  [i \in 1..(hi - lo) |-> xs[lo + i]]

(***************************************************************************)
(* _round_data: rounding to _rounding_precision decimals.                  *)
(***************************************************************************)
_rounding_precision == 12

\* The digits of a rounded float are produced by long division in three
\* groups of _rounding_precision / 3 digits.
GroupBase == 10 ^ (_rounding_precision \div 3)

\* one step of the long division: <<remainder, digits so far>> to the next
DivStep(st, d) == <<(st[1] * GroupBase) % d, Append(st[2], (st[1] * GroupBase) \div d)>>

\* the last group rounded up: the carry runs through the groups into the
\* integer part
Carry(ip, f) ==
    IF f[3] + 1 < GroupBase THEN <<ip, f[1], f[2], f[3] + 1>>
    ELSE IF f[2] + 1 < GroupBase THEN <<ip, f[1], f[2] + 1, 0>>
    ELSE IF f[1] + 1 < GroupBase THEN <<ip, f[1] + 1, 0, 0>>
    ELSE <<ip + 1, 0, 0, 0>>

\* round(x, 12) of a float x (round-half-even on the exact value): the
\* decimal [neg, ip, f1, f2, f3] stands for (+/-) ip.f1f2f3, each f a group
\* of four digits.
RoundFloatOf[x \in Floats] ==
    One({ One({ [neg |-> x[1] < 0 /\ g # <<0, 0, 0, 0>>,
                 ip |-> g[1], f1 |-> g[2], f2 |-> g[3], f3 |-> g[4]] :
                g \in { IF \/ 2 * st[1] > x[2]
                           \/ 2 * st[1] = x[2] /\ st[2][3] % 2 = 1
                        THEN Carry(Abs(x[1]) \div x[2], st[2])
                        ELSE <<Abs(x[1]) \div x[2], st[2][1], st[2][2], st[2][3]>> } }) :
          st \in { DivStep(s2, x[2]) :
                   s2 \in { DivStep(s1, x[2]) :
                            s1 \in { DivStep(<<Abs(x[1]) % x[2], <<>> >>, x[2]) } } } })

RoundFloat(x) == RoundFloatOf[x]

\* np.round(array, 12) and Series.round(12): element-wise
RoundArray(xs) == [i \in 1..Len(xs) |-> RoundFloat(xs[i])]

\* DataFrame.round(12): every column
RoundFrame(df) == [c \in DOMAIN df |-> RoundArray(df[c])]

\* a dict of data frames: the dict comprehension of _round_data
RoundFrames(d) == [k \in DOMAIN d |-> RoundFrame(d[k])]

(***************************************************************************)
(* Python dict operations.                                                 *)
(***************************************************************************)
EmptyDict == <<>>
DictSet(d, k, v) == [x \in (DOMAIN d) \cup {k} |-> IF x = k THEN v ELSE d[x]]
DictDel(d, k) == [x \in (DOMAIN d) \ {k} |-> d[x]]
DictUpdate(d, e) ==
    [x \in (DOMAIN d) \cup (DOMAIN e) |-> IF x \in DOMAIN e THEN e[x] ELSE d[x]]
DictGet(d, k, default) == IF k \in DOMAIN d THEN d[k] ELSE default

\* what a method hands back: the object after the call and either the
\* returned value or the exception raised
Return(s, v) == [self |-> s, exc |-> "none", val |-> v]
Raise(s, e) == [self |-> s, exc |-> e, val |-> <<>>]

(***************************************************************************)
(* Processor                                                               *)
(***************************************************************************)
\* the derived fields with bandwidth left as it was
_update_derived_params_keeps_bandwidth(self) ==
    LET sf == DictGet(self.params, "start_freq", R(1))
        ef == DictGet(self.params, "end_freq", R(1))
    IN  [self EXCEPT
            !.start_freq = sf,
            !.end_freq = ef,
            !.record_time = DictGet(self.params, "record_time", R(1)),
            !.cut_second = DictGet(self.params, "cut_second", R(0)),
            !.fixedlevel = DictGet(self.params, "fixedlevel", Rat(6, 10)),
            !.gain = DictGet(self.params, "gain", R(7)),
            !.bandwidth = self.bandwidth]

_update_derived_params(self) ==
    LET sf == DictGet(self.params, "start_freq", R(1))
        ef == DictGet(self.params, "end_freq", R(1))
    IN  [self EXCEPT
            !.start_freq = sf,
            !.end_freq = ef,
            !.record_time = DictGet(self.params, "record_time", R(1)),
            !.cut_second = DictGet(self.params, "cut_second", R(0)),
            !.fixedlevel = DictGet(self.params, "fixedlevel", Rat(6, 10)),
            !.gain = DictGet(self.params, "gain", R(7)),
            !.bandwidth = RSub(ef, sf)]

\* Processor.__init__(data); data.order is the insertion order of the dict
\* data['channels']
__init__(data) ==
    _update_derived_params(
        [channels |-> data.channels, channel_order |-> data.order,
         params |-> data.params,
         _cache |-> EmptyDict, _precomputed |-> EmptyDict,
         start_freq |-> R(0), end_freq |-> R(0), record_time |-> R(0),
         cut_second |-> R(0), fixedlevel |-> R(0), gain |-> R(0),
         bandwidth |-> R(0)])

Tier1Keys == {"cropped_data", "freq_response", "channel_parameters"}

RECURSIVE DelKeys(_, _)
DelKeys(d, keys) ==
    IF keys = <<>> THEN d
    ELSE DelKeys(IF Head(keys) \in DOMAIN d THEN DictDel(d, Head(keys)) ELSE d,
                 Tail(keys))

\* update_params with 'freq_response' left out of keys_to_clear
update_params_keeps_freq_response(self, new_params) ==
    LET s1 == [self EXCEPT !.params = DictUpdate(self.params, new_params)]
        s2 == _update_derived_params(s1)
        keys_to_clear == <<"cropped_data", "channel_parameters">>
    IN  Return([s2 EXCEPT !._cache = DelKeys(s2._cache, keys_to_clear)], <<>>)

\* update_params that marks the Tier-1 entries as invalid (None) and keeps
\* their keys
update_params_marks_invalid(self, new_params) ==
    LET s1 == [self EXCEPT !.params = DictUpdate(self.params, new_params)]
        s2 == _update_derived_params(s1)
    IN  Return([s2 EXCEPT !._cache =
                    [key \in DOMAIN s2._cache |->
                        IF key \in Tier1Keys THEN <<>> ELSE s2._cache[key]]],
               <<>>)

\* update_params that starts the precomputed artifacts afresh, as __init__
\* does
update_params_resets_precomputed(self, new_params) ==
    LET s1 == [self EXCEPT !.params = DictUpdate(self.params, new_params)]
        s2 == _update_derived_params(s1)
        keys_to_clear == <<"cropped_data", "freq_response", "channel_parameters">>
    IN  Return([s2 EXCEPT !._cache = DelKeys(s2._cache, keys_to_clear),
                          !._precomputed = EmptyDict], <<>>)

\* update_params without the call of _update_derived_params
update_params_skips_derived(self, new_params) ==
    LET s1 == [self EXCEPT !.params = DictUpdate(self.params, new_params)]
        keys_to_clear == <<"cropped_data", "freq_response", "channel_parameters">>
    IN  Return([s1 EXCEPT !._cache = DelKeys(s1._cache, keys_to_clear)], <<>>)

update_params(self, new_params) ==
    LET s1 == [self EXCEPT !.params = DictUpdate(self.params, new_params)]
        s2 == _update_derived_params(s1)
        keys_to_clear == <<"cropped_data", "freq_response", "channel_parameters">>
    IN  Return([s2 EXCEPT !._cache = DelKeys(s2._cache, keys_to_clear)], <<>>)

\* set_signal_start_channel without the membership test on the channel name
set_signal_start_channel_unchecked(self, channel_name) ==
    LET s1 == [self EXCEPT
                  !.params = DictSet(self.params, "signal_start_channel",
                                     channel_name)]
    IN  Return([s1 EXCEPT !._cache =
                    DelKeys(s1._cache,
                            <<"cropped_data", "freq_response",
                              "channel_parameters">>)], <<>>)

\* set_signal_start_channel that drops the cropped data only
set_signal_start_channel_drops_crop_only(self, channel_name) ==
    IF channel_name \in DOMAIN self.channels
    THEN LET s1 == [self EXCEPT
                       !.params = DictSet(self.params, "signal_start_channel",
                                          channel_name)]
             c1 == IF "cropped_data" \in DOMAIN s1._cache
                   THEN DictDel(s1._cache, "cropped_data") ELSE s1._cache
         IN  Return([s1 EXCEPT !._cache = c1], <<>>)
    ELSE Return(self, <<>>)

set_signal_start_channel(self, channel_name) ==
    IF channel_name \in DOMAIN self.channels
    THEN LET s1 == [self EXCEPT
                       !.params = DictSet(self.params, "signal_start_channel",
                                          channel_name)]
             c1 == IF "cropped_data" \in DOMAIN s1._cache
                   THEN DictDel(s1._cache, "cropped_data") ELSE s1._cache
             c2 == IF "freq_response" \in DOMAIN c1
                   THEN DictDel(c1, "freq_response") ELSE c1
             c3 == IF "channel_parameters" \in DOMAIN c2
                   THEN DictDel(c2, "channel_parameters") ELSE c2
         IN  Return([s1 EXCEPT !._cache = c3], <<>>)
    ELSE Return(self, <<>>)

_precompute_raw_extremums(self) ==
    IF "raw_extremums" \in DOMAIN self._precomputed
    THEN Return(self, self._precomputed["raw_extremums"])
    ELSE IF \E name \in DOMAIN self.channels :
                Len(self.channels[name].Amplitude) = 0
         THEN Raise(self, "ValueError")
         ELSE One({ Return([self EXCEPT !._precomputed =
                               DictSet(@, "raw_extremums", raw_extremums)],
                           raw_extremums) :
                    raw_extremums \in
                      { [name \in DOMAIN self.channels |->
                            LET amplitude == self.channels[name].Amplitude
                            IN  [max_amp |-> amplitude[ArgMax(amplitude) + 1],
                                 min_amp |-> amplitude[ArgMin(amplitude) + 1],
                                 maxamp_idx |-> ArgMax(amplitude),
                                 minamp_idx |-> ArgMin(amplitude)]] } })

\* xs[::-1]
Reverse(xs) == [i \in 1..Len(xs) |-> xs[Len(xs) + 1 - i]]

\* Series.rolling(window, min_periods=1).mean(): the mean of the last
\* `window` values up to and including position i, of all of them when
\* there are fewer
RollingMean(xs, window) ==
    [i \in 1..Len(xs) |->
        LET lo == IF i - window + 1 < 1 THEN 1 ELSE i - window + 1
        IN  RDiv(SumRange(xs, lo, i), R(i - lo + 1))]

SmoothingWindow == 15

\* np.abs of a column
AbsArray(xs) == [i \in 1..Len(xs) |-> RAbs(xs[i])]

\* data_copy with Smoothed the trailing mean of ABS_Amplitude, taken without
\* the two reversals
SmoothedFrame_trailing(data) ==
    One({ [Time |-> data.Time,
           Amplitude |-> data.Amplitude,
           ABS_Amplitude |-> abs_amplitude,
           Smoothed |-> RollingMean(abs_amplitude, SmoothingWindow)] :
          abs_amplitude \in {AbsArray(data.Amplitude)} })

\* data_copy for one channel: the columns ABS_Amplitude and Smoothed added,
\* Smoothed = ABS_Amplitude[::-1].rolling(15, min_periods=1).mean()[::-1]
SmoothedFrame(data) ==
    One({ [Time |-> data.Time,
           Amplitude |-> data.Amplitude,
           ABS_Amplitude |-> abs_amplitude,
           Smoothed |->
              One({ Reverse(rolled) :
                    rolled \in { RollingMean(reversed, SmoothingWindow) :
                                 reversed \in {Reverse(abs_amplitude)} } })] :
          abs_amplitude \in {AbsArray(data.Amplitude)} })

_precompute_smoothed_data(self) ==
    IF "smoothed_data" \in DOMAIN self._precomputed
    THEN Return(self, self._precomputed["smoothed_data"])
    ELSE One({ Return([self EXCEPT !._precomputed =
                          DictSet(@, "smoothed_data", smoothed_data)],
                      smoothed_data) :
               smoothed_data \in
                 { [name \in DOMAIN self.channels |->
                       SmoothedFrame(self.channels[name])] } })

MinCropPoints == 10

\* the body of _get_signal_start_index once smoothed_data is there (r is
\* what _precompute_smoothed_data handed back)
\* Python round(x) of a float to an integer: to nearest, ties to even
PyRound(x) ==
    LET t == Trunc(x)
        frac == RAbs(RSub(x, R(t)))
        away == IF x[1] < 0 THEN t - 1 ELSE t + 1
    IN  IF RLt(Rat(1, 2), frac) THEN away
        ELSE IF frac = Rat(1, 2) THEN (IF t % 2 = 0 THEN t ELSE away)
        ELSE t

\* the locator with the sample offset rounded to nearest
SignalStartFrom_rounds_offset(r) ==
    LET s1 == r.self
        smoothed_data == r.val
    IN  IF DOMAIN smoothed_data = {} THEN Return(s1, 0)
        ELSE IF "signal_start_channel" \notin DOMAIN s1.params
        THEN Raise(s1, "KeyError")
        ELSE IF s1.params["signal_start_channel"] \notin DOMAIN smoothed_data
        THEN Return(s1, 0)
        ELSE LET signal_channel == smoothed_data[s1.params["signal_start_channel"]]
                 total_points == Len(signal_channel.Time)
             IN  IF total_points = 0 THEN Raise(s1, "ValueError")
                 ELSE IF total_points < 2 THEN Return(s1, 0)
                 ELSE LET max_idx == ArgMax(signal_channel.Amplitude)
                          time_step == RSub(signal_channel.Time[2],
                                            signal_channel.Time[1])
                          offset_points ==
                              IF RLt(R(0), time_step)
                              THEN PyRound(RDiv(s1.cut_second, time_step))
                              ELSE 0
                      IN  One({ Return(s1, IF inner > 0 THEN inner ELSE 0) :
                                inner \in { IF max_idx + offset_points < total_points - 1
                                            THEN max_idx + offset_points
                                            ELSE total_points - 1 } })

\* the locator taking the peak of the rectified amplitude
SignalStartFrom_peak_of_magnitude(r) ==
    LET s1 == r.self
        smoothed_data == r.val
    IN  IF DOMAIN smoothed_data = {} THEN Return(s1, 0)
        ELSE IF "signal_start_channel" \notin DOMAIN s1.params
        THEN Raise(s1, "KeyError")
        ELSE IF s1.params["signal_start_channel"] \notin DOMAIN smoothed_data
        THEN Return(s1, 0)
        ELSE LET signal_channel == smoothed_data[s1.params["signal_start_channel"]]
                 total_points == Len(signal_channel.Time)
             IN  IF total_points = 0 THEN Raise(s1, "ValueError")
                 ELSE IF total_points < 2 THEN Return(s1, 0)
                 ELSE LET max_idx == ArgMax(signal_channel.ABS_Amplitude)
                          time_step == RSub(signal_channel.Time[2],
                                            signal_channel.Time[1])
                          offset_points ==
                              IF RLt(R(0), time_step)
                              THEN Trunc(RDiv(s1.cut_second, time_step))
                              ELSE 0
                      IN  One({ Return(s1, IF inner > 0 THEN inner ELSE 0) :
                                inner \in { IF max_idx + offset_points < total_points - 1
                                            THEN max_idx + offset_points
                                            ELSE total_points - 1 } })

SignalStartFrom(r) ==
    LET s1 == r.self
        smoothed_data == r.val
    IN  IF DOMAIN smoothed_data = {} THEN Return(s1, 0)
        ELSE IF "signal_start_channel" \notin DOMAIN s1.params
        THEN Raise(s1, "KeyError")
        ELSE IF s1.params["signal_start_channel"] \notin DOMAIN smoothed_data
        THEN Return(s1, 0)
        ELSE LET signal_channel == smoothed_data[s1.params["signal_start_channel"]]
                 total_points == Len(signal_channel.Time)
             IN  IF total_points = 0 THEN Raise(s1, "ValueError")
                 ELSE IF total_points < 2 THEN Return(s1, 0)
                 ELSE LET max_idx == ArgMax(signal_channel.Amplitude)
                          time_step == RSub(signal_channel.Time[2],
                                            signal_channel.Time[1])
                          offset_points ==
                              IF RLt(R(0), time_step)
                              THEN Trunc(RDiv(s1.cut_second, time_step))
                              ELSE 0
                      IN  One({ Return(s1, IF inner > 0 THEN inner ELSE 0) :
                                inner \in { IF max_idx + offset_points < total_points - 1
                                            THEN max_idx + offset_points
                                            ELSE total_points - 1 } })

_get_signal_start_index(self) ==
    One({ SignalStartFrom(r) : r \in {_precompute_smoothed_data(self)} })

\* the end of _get_cropped_indices, writing the duration of the window it
\* settled on back into record_time
CroppedIndicesFrom_corrects_record_time(r2, signal_channel) ==
    LET s2 == r2.self
        signal_start == r2.val
        total_points == Len(signal_channel.Time)
    IN  IF r2.exc # "none" THEN r2
        ELSE IF total_points < 2 THEN Return(s2, <<0, 0>>)
        ELSE LET time_step == RSub(signal_channel.Time[2], signal_channel.Time[1])
                 max_possible_points == total_points - signal_start
                 requested_points ==
                     IF RLt(R(0), time_step)
                     THEN Trunc(RDiv(s2.record_time, time_step))
                     ELSE 0
             IN  One({ Return([s2 EXCEPT !.record_time =
                                  RMul(R(points_to_crop), time_step)],
                              <<signal_start, points_to_crop>>) :
                       points_to_crop \in
                         { IF requested_points < max_possible_points
                              /\ requested_points >= MinCropPoints
                           THEN requested_points
                           ELSE max_possible_points } })

\* the end of _get_cropped_indices with the floor taken at 10 points or
\* fewer instead of fewer than 10
CroppedIndicesFrom_floor_inclusive(r2, signal_channel) ==
    LET s2 == r2.self
        signal_start == r2.val
        total_points == Len(signal_channel.Time)
    IN  IF r2.exc # "none" THEN r2
        ELSE IF total_points < 2 THEN Return(s2, <<0, 0>>)
        ELSE LET time_step == RSub(signal_channel.Time[2], signal_channel.Time[1])
                 max_possible_points == total_points - signal_start
                 requested_points ==
                     IF RLt(R(0), time_step)
                     THEN Trunc(RDiv(s2.record_time, time_step))
                     ELSE 0
             IN  One({ Return(s2, <<signal_start,
                                    IF min_points <= MinCropPoints
                                    THEN max_possible_points ELSE min_points>>) :
                       min_points \in { IF requested_points < max_possible_points
                                        THEN requested_points
                                        ELSE max_possible_points } })

\* the end of _get_cropped_indices: r2 is what _get_signal_start_index
\* handed back, signal_channel the reference channel's record
CroppedIndicesFrom(r2, signal_channel) ==
    LET s2 == r2.self
        signal_start == r2.val
        total_points == Len(signal_channel.Time)
    IN  IF r2.exc # "none" THEN r2
        ELSE IF total_points < 2 THEN Return(s2, <<0, 0>>)
        ELSE LET time_step == RSub(signal_channel.Time[2], signal_channel.Time[1])
                 max_possible_points == total_points - signal_start
                 requested_points ==
                     IF RLt(R(0), time_step)
                     THEN Trunc(RDiv(s2.record_time, time_step))
                     ELSE 0
             IN  One({ Return(s2, <<signal_start,
                                    IF min_points < MinCropPoints
                                    THEN max_possible_points ELSE min_points>>) :
                       min_points \in { IF requested_points < max_possible_points
                                        THEN requested_points
                                        ELSE max_possible_points } })

\* the body of _get_cropped_indices once smoothed_data is there
CroppedIndicesWith(r) ==
    LET s1 == r.self
        smoothed_data == r.val
    IN  IF DOMAIN smoothed_data = {} THEN Return(s1, <<0, 0>>)
        ELSE IF "signal_start_channel" \notin DOMAIN s1.params
        THEN Raise(s1, "KeyError")
        ELSE IF s1.params["signal_start_channel"] \notin DOMAIN smoothed_data
        THEN Return(s1, <<0, 0>>)
        ELSE One({ CroppedIndicesFrom(
                       r2, smoothed_data[s1.params["signal_start_channel"]]) :
                   r2 \in {_get_signal_start_index(s1)} })

_get_cropped_indices(self) ==
    One({ CroppedIndicesWith(r) : r \in {_precompute_smoothed_data(self)} })

\* DataFrame.iloc[a : a + n]
ILoc(data, a, n) == [c \in DOMAIN data |-> Slice(data[c], a, n)]

\* the slicing that takes points_to_crop samples from the start of each record
CroppedDataFrom_from_origin(r1, r2) ==
    IF r2.exc # "none" THEN r2
    ELSE One({ Return([r2.self EXCEPT !._cache =
                          DictSet(@, "cropped_data", cropped_data)],
                      cropped_data) :
               cropped_data \in
                 { [name \in DOMAIN r1.val |->
                       ILoc(r1.val[name], 0, r2.val[2])] } })

\* the slicing and caching of _get_cropped_data: r1 is what
\* _precompute_smoothed_data handed back, r2 what _get_cropped_indices did
CroppedDataFrom(r1, r2) ==
    IF r2.exc # "none" THEN r2
    ELSE One({ Return([r2.self EXCEPT !._cache =
                          DictSet(@, "cropped_data", cropped_data)],
                      cropped_data) :
               cropped_data \in
                 { [name \in DOMAIN r1.val |->
                       ILoc(r1.val[name], r2.val[1], r2.val[2])] } })

_get_cropped_data(self) ==
    IF "cropped_data" \in DOMAIN self._cache
    THEN Return(self, self._cache["cropped_data"])
    ELSE One({ One({ CroppedDataFrom(r1, r2) :
                     r2 \in {_get_cropped_indices(r1.self)} }) :
               r1 \in {_precompute_smoothed_data(self)} })

\* 20 * np.log10(x), kept as the term it is
DB20Log10(x) == [twenty_log10_of |-> x]

\* freqs = start_freq + (bandwidth / record_time) * (time - time[0])
FreqAxis(self, time) ==
    One({ [i \in 1..Len(time) |->
              RAdd(self.start_freq, RMul(slope, RSub(time[i], time[1])))] :
          slope \in {RDiv(self.bandwidth, self.record_time)} })

\* the frequency response with the gain applied to the dB amplitudes too
FreqResponseFrom_gain_in_dB(r1) ==
    LET s1 == r1.self
        cropped_data == r1.val
    IN  IF r1.exc # "none" THEN r1
        ELSE IF Len(s1.channel_order) = 0 THEN Raise(s1, "IndexError")
        ELSE IF Len(cropped_data[s1.channel_order[1]].Time) = 0
        THEN Raise(s1, "IndexError")
        ELSE IF IsZero(s1.record_time) THEN Raise(s1, "ZeroDivisionError")
        ELSE One({ Return([s1 EXCEPT !._cache =
                              DictSet(@, "freq_response", freq_response)],
                          freq_response) :
                   freq_response \in
                     { [linear |->
                          [name \in DOMAIN cropped_data |->
                              [freq |-> freqs,
                               amplitude |->
                                  [i \in 1..Len(cropped_data[name].Smoothed) |->
                                      RMul(cropped_data[name].Smoothed[i], s1.gain)]]],
                        dB |->
                          [name \in DOMAIN cropped_data |->
                              [freq |-> freqs,
                               db_amplitude |->
                                  [i \in 1..Len(cropped_data[name].Smoothed) |->
                                      DB20Log10(RMul(cropped_data[name].Smoothed[i],
                                                     s1.gain))]]]] :
                       freqs \in {FreqAxis(s1, cropped_data[s1.channel_order[1]].Time)} } })

\* the body of _get_freq_response_data after the call of _get_cropped_data
FreqResponseFrom(r1) ==
    LET s1 == r1.self
        cropped_data == r1.val
    IN  IF r1.exc # "none" THEN r1
        ELSE IF Len(s1.channel_order) = 0 THEN Raise(s1, "IndexError")
        ELSE IF Len(cropped_data[s1.channel_order[1]].Time) = 0
        THEN Raise(s1, "IndexError")
        ELSE IF IsZero(s1.record_time) THEN Raise(s1, "ZeroDivisionError")
        ELSE One({ Return([s1 EXCEPT !._cache =
                              DictSet(@, "freq_response", freq_response)],
                          freq_response) :
                   freq_response \in
                     { [linear |->
                          [name \in DOMAIN cropped_data |->
                              [freq |-> freqs,
                               amplitude |->
                                  [i \in 1..Len(cropped_data[name].Smoothed) |->
                                      RMul(cropped_data[name].Smoothed[i], s1.gain)]]],
                        dB |->
                          [name \in DOMAIN cropped_data |->
                              [freq |-> freqs,
                               db_amplitude |->
                                  [i \in 1..Len(cropped_data[name].Smoothed) |->
                                      DB20Log10(cropped_data[name].Smoothed[i])]]]] :
                       freqs \in {FreqAxis(s1, cropped_data[s1.channel_order[1]].Time)} } })

_get_freq_response_data(self) ==
    IF "freq_response" \in DOMAIN self._cache
    THEN Return(self, self._cache["freq_response"])
    ELSE One({ FreqResponseFrom(r1) : r1 \in {_get_cropped_data(self)} })

\* 0-based positions i with amplitude[i] strictly above level
Above_strictly(amplitude, level) ==
    {i \in 0..(Len(amplitude) - 1) : RLt(level, amplitude[i + 1])}

\* 0-based positions i with amplitude[i] >= level (np.where(...)[0])
Above(amplitude, level) ==
    {i \in 0..(Len(amplitude) - 1) : RLe(level, amplitude[i + 1])}

SetMin(S) == CHOOSE i \in S : \A j \in S : i <= j
SetMax(S) == CHOOSE i \in S : \A j \in S : j <= i

HalfPowerFactor == Rat(707, 1000)

\* the exception the loop body of _get_channel_parameters raises for one
\* channel: np.max of an empty array, or an index past the end of freq
ChannelParamsExc(data, fixedlevel) ==
    IF Len(data.amplitude) = 0 THEN "ValueError"
    ELSE One({ IF \/ max_amp_idx >= Len(data.freq)
                  \/ \E i \in Above(data.amplitude,
                                    RMul(data.amplitude[max_amp_idx + 1],
                                         HalfPowerFactor)) : i >= Len(data.freq)
                  \/ \E i \in Above(data.amplitude, fixedlevel) : i >= Len(data.freq)
               THEN "IndexError"
               ELSE "none" :
               max_amp_idx \in {ArgMax(data.amplitude)} })

\* the band that spans the whole frequency axis when no sample is at or above
\* the level
Band_empty_spans_axis(freq, above) ==
    IF above # {}
    THEN [bandwidth |-> RSub(freq[SetMax(above) + 1], freq[SetMin(above) + 1]),
          range |-> <<freq[SetMin(above) + 1], freq[SetMax(above) + 1]>>]
    ELSE [bandwidth |-> RSub(freq[Len(freq)], freq[1]),
          range |-> <<freq[1], freq[Len(freq)]>>]

\* bandwidth and range of the band [first, last] sample at or above a level
Band(freq, above) ==
    IF above # {}
    THEN [bandwidth |-> RSub(freq[SetMax(above) + 1], freq[SetMin(above) + 1]),
          range |-> <<freq[SetMin(above) + 1], freq[SetMax(above) + 1]>>]
    ELSE [bandwidth |-> R(0), range |-> <<R(0), R(0)>>]

\* the channel parameters with max_amplitude the peak amplitude itself
ChannelParams_peak_amplitude(data, fixedlevel) ==
    One({ One({ [max_amplitude |-> data.amplitude[max_amp_idx + 1],
                 resonance_frequency |-> data.freq[max_amp_idx + 1],
                 bandwidth_707 |-> b707.bandwidth,
                 bandwidth_707_range |-> b707.range,
                 bandwidth_fixed |-> bfixed.bandwidth,
                 bandwidth_fixed_range |-> bfixed.range,
                 q_factor |-> IF RLt(R(0), b707.bandwidth)
                              THEN RDiv(data.freq[max_amp_idx + 1], b707.bandwidth)
                              ELSE R(0)] :
                b707 \in { Band(data.freq,
                                Above(data.amplitude,
                                      RMul(data.amplitude[max_amp_idx + 1],
                                           HalfPowerFactor))) },
                bfixed \in { Band(data.freq, Above(data.amplitude, fixedlevel)) } }) :
          max_amp_idx \in {ArgMax(data.amplitude)} })

\* the channel parameters with q_factor taken over the fixed-level band
ChannelParams_q_of_fixed_band(data, fixedlevel) ==
    One({ One({ [max_amplitude |-> RMul(data.amplitude[max_amp_idx + 1], R(2)),
                 resonance_frequency |-> data.freq[max_amp_idx + 1],
                 bandwidth_707 |-> b707.bandwidth,
                 bandwidth_707_range |-> b707.range,
                 bandwidth_fixed |-> bfixed.bandwidth,
                 bandwidth_fixed_range |-> bfixed.range,
                 q_factor |-> IF RLt(R(0), bfixed.bandwidth)
                              THEN RDiv(data.freq[max_amp_idx + 1], bfixed.bandwidth)
                              ELSE R(0)] :
                b707 \in { Band(data.freq,
                                Above(data.amplitude,
                                      RMul(data.amplitude[max_amp_idx + 1],
                                           HalfPowerFactor))) },
                bfixed \in { Band(data.freq, Above(data.amplitude, fixedlevel)) } }) :
          max_amp_idx \in {ArgMax(data.amplitude)} })

\* the last position of the maximum, 0-based
ArgMaxLast(xs) ==
    CHOOSE i \in 0..(Len(xs) - 1) :
        /\ \A j \in 1..Len(xs) : RLe(xs[j], xs[i + 1])
        /\ \A j \in (i + 2)..Len(xs) : RLt(xs[j], xs[i + 1])

\* the channel parameters with the resonance read at the last position of
\* the maximum
ChannelParams_resonance_at_last_peak(data, fixedlevel) ==
    One({ One({ [max_amplitude |-> RMul(data.amplitude[max_amp_idx + 1], R(2)),
                 resonance_frequency |-> data.freq[ArgMaxLast(data.amplitude) + 1],
                 bandwidth_707 |-> b707.bandwidth,
                 bandwidth_707_range |-> b707.range,
                 bandwidth_fixed |-> bfixed.bandwidth,
                 bandwidth_fixed_range |-> bfixed.range,
                 q_factor |-> IF RLt(R(0), b707.bandwidth)
                              THEN RDiv(data.freq[max_amp_idx + 1], b707.bandwidth)
                              ELSE R(0)] :
                b707 \in { Band(data.freq,
                                Above(data.amplitude,
                                      RMul(data.amplitude[max_amp_idx + 1],
                                           HalfPowerFactor))) },
                bfixed \in { Band(data.freq, Above(data.amplitude, fixedlevel)) } }) :
          max_amp_idx \in {ArgMax(data.amplitude)} })

\* the loop body of _get_channel_parameters for one channel that raises nothing
ChannelParams(data, fixedlevel) ==
    One({ One({ [max_amplitude |-> RMul(data.amplitude[max_amp_idx + 1], R(2)),
                 resonance_frequency |-> data.freq[max_amp_idx + 1],
                 bandwidth_707 |-> b707.bandwidth,
                 bandwidth_707_range |-> b707.range,
                 bandwidth_fixed |-> bfixed.bandwidth,
                 bandwidth_fixed_range |-> bfixed.range,
                 q_factor |-> IF RLt(R(0), b707.bandwidth)
                              THEN RDiv(data.freq[max_amp_idx + 1], b707.bandwidth)
                              ELSE R(0)] :
                b707 \in { Band(data.freq,
                                Above(data.amplitude,
                                      RMul(data.amplitude[max_amp_idx + 1],
                                           HalfPowerFactor))) },
                bfixed \in { Band(data.freq, Above(data.amplitude, fixedlevel)) } }) :
          max_amp_idx \in {ArgMax(data.amplitude)} })

\* the body of _get_channel_parameters after the call of
\* _get_freq_response_data
ChannelParametersFrom(r1) ==
    LET s1 == r1.self
        linear_data == r1.val.linear
    IN  IF r1.exc # "none" THEN r1
        ELSE One({ IF failing # {}
                   THEN Raise(s1, excs[SetMin(failing)])
                   ELSE One({ Return([s1 EXCEPT !._cache =
                                         DictSet(@, "channel_parameters",
                                                 channel_params)],
                                     channel_params) :
                              channel_params \in
                                { [name \in DOMAIN linear_data |->
                                      ChannelParams(linear_data[name],
                                                    s1.fixedlevel)] } }) :
                   excs \in { [k \in 1..Len(s1.channel_order) |->
                                  ChannelParamsExc(linear_data[s1.channel_order[k]],
                                                   s1.fixedlevel)] },
                   failing \in { {k \in 1..Len(s1.channel_order) :
                                     ChannelParamsExc(linear_data[s1.channel_order[k]],
                                                      s1.fixedlevel) # "none"} } })

\* _get_channel_parameters that applies the doubling of max_amplitude once
\* more whenever it serves the memoized entry
_get_channel_parameters_redoubles(self) ==
    IF "channel_parameters" \in DOMAIN self._cache
    THEN Return(self,
                [name \in DOMAIN self._cache["channel_parameters"] |->
                    [self._cache["channel_parameters"][name] EXCEPT
                        !.max_amplitude = RMul(@, R(2))]])
    ELSE One({ ChannelParametersFrom(r1) : r1 \in {_get_freq_response_data(self)} })

_get_channel_parameters(self) ==
    IF "channel_parameters" \in DOMAIN self._cache
    THEN Return(self, self._cache["channel_parameters"])
    ELSE One({ ChannelParametersFrom(r1) : r1 \in {_get_freq_response_data(self)} })

\* _round_data of the dict that _get_channel_parameters returns
RoundChannelParams(cp) ==
    [name \in DOMAIN cp |->
        [max_amplitude |-> RoundFloat(cp[name].max_amplitude),
         resonance_frequency |-> RoundFloat(cp[name].resonance_frequency),
         bandwidth_707 |-> RoundFloat(cp[name].bandwidth_707),
         bandwidth_707_range |-> <<RoundFloat(cp[name].bandwidth_707_range[1]),
                                   RoundFloat(cp[name].bandwidth_707_range[2])>>,
         bandwidth_fixed |-> RoundFloat(cp[name].bandwidth_fixed),
         bandwidth_fixed_range |-> <<RoundFloat(cp[name].bandwidth_fixed_range[1]),
                                     RoundFloat(cp[name].bandwidth_fixed_range[2])>>,
         q_factor |-> RoundFloat(cp[name].q_factor)]]

\* a method result r passed through the wrapper of @rounded_property:
\* rounded is _round_data of the value, looked at only when r returned
Rounded(r, rounded) ==
    IF r.exc # "none" THEN r ELSE Return(r.self, rounded)

\* the property channel_parameters (rounded)
channel_parameters(self) ==
    One({ Rounded(r, RoundChannelParams(r.val)) : r \in {_get_channel_parameters(self)} })

\* a rounded float plus an unrounded one: the sum is kept as its two terms
FloatSum(rounded, x) == [base |-> rounded, plus |-> x]

\* calculate_frequency_forecast with the whole of criterion * record_time on
\* either side of the resonance
ForecastFrom_unhalved(r, channel_name, sufficient_criterion) ==
    IF r.exc # "none" THEN r
    ELSE IF channel_name \notin DOMAIN r.val THEN Return(r.self, <<>>)
    ELSE One({ Return(r.self,
                      << FloatSum(r.val[channel_name].resonance_frequency,
                                  RSub(R(0), whole)),
                         FloatSum(r.val[channel_name].resonance_frequency, whole) >>) :
               whole \in { RMul(sufficient_criterion, r.self.record_time) } })

\* calculate_frequency_forecast after its reads of self.channel_parameters
ForecastFrom(r, channel_name, sufficient_criterion) ==
    IF r.exc # "none" THEN r
    ELSE IF channel_name \notin DOMAIN r.val THEN Return(r.self, <<>>)
    ELSE One({ Return(r.self,
                      << FloatSum(r.val[channel_name].resonance_frequency,
                                  RSub(R(0), half)),
                         FloatSum(r.val[channel_name].resonance_frequency, half) >>) :
               half \in { RDiv(RMul(sufficient_criterion, r.self.record_time), R(2)) } })

\* returns None (the empty tuple here) or the pair (lower_bound, upper_bound)
calculate_frequency_forecast(self, channel_name, sufficient_criterion) ==
    One({ ForecastFrom(r, channel_name, sufficient_criterion) :
          r \in {channel_parameters(self)} })

(***************************************************************************)
(* The read properties.  @rounded_property wraps the result in _round_data.*)
(***************************************************************************)
\* raw_data over the rectified amplitudes (np.abs) of the channels
raw_data_of_magnitudes(self) ==
    One({ Return(s1, RoundFrames(s1._precomputed["raw_data"])) :
          s1 \in { IF "raw_data" \notin DOMAIN self._precomputed
                   THEN [self EXCEPT !._precomputed =
                            DictSet(@, "raw_data",
                                    [name \in DOMAIN self.channels |->
                                        [self.channels[name] EXCEPT
                                            !.Amplitude = AbsArray(@)]])]
                   ELSE self } })

raw_data(self) ==
    One({ Return(s1, RoundFrames(s1._precomputed["raw_data"])) :
          s1 \in { IF "raw_data" \notin DOMAIN self._precomputed
                   THEN [self EXCEPT !._precomputed =
                            DictSet(@, "raw_data",
                                    [name \in DOMAIN self.channels |->
                                        self.channels[name]])]
                   ELSE self } })

smoothed_data(self) ==
    One({ Rounded(r, RoundFrames(r.val)) : r \in {_precompute_smoothed_data(self)} })

cropped_data(self) ==
    One({ Rounded(r, RoundFrames(r.val)) : r \in {_get_cropped_data(self)} })

\* _round_data of values that are rounded already: round(x, 12) of a decimal
\* with 12 fractional digits is that decimal
RoundRounded(xs) == xs

RawPlot(frames) ==
    [name \in DOMAIN frames |->
        [time |-> RoundRounded(frames[name].Time),
         amplitude |-> RoundRounded(frames[name].Amplitude)]]

rawplot(self) ==
    One({ Rounded(r, RawPlot(r.val)) : r \in {raw_data(self)} })

SmoothedPlot(cropped) ==
    [name \in DOMAIN cropped |->
        [time |-> RoundArray([i \in 1..Len(cropped[name].Time) |->
                                 RSub(cropped[name].Time[i], cropped[name].Time[1])]),
         smoothed_amplitude |-> RoundArray(cropped[name].Smoothed)]]

\* data['Время'].values[0] raises IndexError for a channel with an empty crop
SmoothedPlotFrom(r) ==
    IF r.exc = "none" /\ \E name \in DOMAIN r.val : Len(r.val[name].Time) = 0
    THEN Raise(r.self, "IndexError")
    ELSE Rounded(r, SmoothedPlot(r.val))

smoothedplot(self) ==
    One({ SmoothedPlotFrom(r) : r \in {_get_cropped_data(self)} })

RoundLinear(freq_data) ==
    [name \in DOMAIN freq_data.linear |->
        [freq |-> RoundArray(freq_data.linear[name].freq),
         amplitude |-> RoundArray(freq_data.linear[name].amplitude)]]

freqresponse_linear(self) ==
    One({ Rounded(r, RoundLinear(r.val)) : r \in {_get_freq_response_data(self)} })

freqresponse_dB(self) ==
    One({ IF r.exc # "none" THEN r ELSE Return(r.self, r.val.dB) :
          r \in {_get_freq_response_data(self)} })

AnalysisStartTimeFrom(r) ==
    IF r.exc # "none" THEN r
    ELSE IF Len(r.self.channel_order) = 0 THEN Raise(r.self, "IndexError")
    ELSE IF Len(r.val[r.self.channel_order[1]].Time) = 0
    THEN Raise(r.self, "IndexError")
    ELSE Return(r.self, r.val[r.self.channel_order[1]].Time[1])

analysis_start_time(self) ==
    One({ AnalysisStartTimeFrom(r) : r \in {_get_cropped_data(self)} })

\* {name: data[field] for name, data in extremums.items()}
Project(r, field) ==
    IF r.exc # "none" THEN r
    ELSE Return(r.self, [name \in DOMAIN r.val |-> r.val[name][field]])

RoundDict(d) == [name \in DOMAIN d |-> RoundFloat(d[name])]

raw_max_amp(self) ==
    One({ Rounded(p, RoundDict(p.val)) :
          p \in { Project(r, "max_amp") : r \in {_precompute_raw_extremums(self)} } })

raw_min_amp(self) ==
    One({ Rounded(p, RoundDict(p.val)) :
          p \in { Project(r, "min_amp") : r \in {_precompute_raw_extremums(self)} } })

raw_maxamp_idx(self) ==
    One({ Project(r, "maxamp_idx") : r \in {_precompute_raw_extremums(self)} })

raw_minamp_idx(self) ==
    One({ Project(r, "minamp_idx") : r \in {_precompute_raw_extremums(self)} })

(***************************************************************************)
(* Inputs: the channel mappings a processor is constructed over, the       *)
(* initial parameter sets, and the arguments of the public operations.     *)
(***************************************************************************)
NumSamples == 12
MaxGain == 2

\* n samples, one per second from t = 0
TimeAxis(n) == [i \in 1..n |-> R(i - 1)]

\* a pulse: the signal is over after the second sample
PulseA(n) == [i \in 1..n |-> IF i = 2 THEN R(3) ELSE R(0)]
PulseB(n) == [i \in 1..n |-> IF i = 1 THEN R(-2) ELSE IF i = 2 THEN R(1) ELSE R(0)]

Frame(time, amplitude) == [Time |-> time, Amplitude |-> amplitude]

ChannelSets ==
    << [channels |-> EmptyDict, order |-> <<>>],
       [channels |-> [CH1 |-> Frame(TimeAxis(1), <<R(1)>>)], order |-> <<"CH1">>],
       [channels |-> [CH1 |-> Frame(TimeAxis(NumSamples), PulseA(NumSamples)),
                      CH2 |-> Frame(TimeAxis(NumSamples), PulseB(NumSamples))],
        order |-> <<"CH1", "CH2">>] >>

\* the parameter set the GUI builds for a loaded file: no
\* signal_start_channel key
BaseParams ==
    [start_freq |-> R(1), end_freq |-> R(3), record_time |-> R(2),
     cut_second |-> R(0), fixedlevel |-> Rat(6, 10), gain |-> R(1),
     amplitude |-> R(1)]

InitialParams ==
    << BaseParams,
       DictSet(BaseParams, "signal_start_channel", "CH1"),
       DictSet(BaseParams, "signal_start_channel", "CH9") >>

\* the partial parameter sets handed to update_params
CutSecondInputs == <<R(0), R(1)>>

UpdateInputs ==
    [g \in 1..MaxGain |-> [gain |-> R(g)]]
    \o [c \in 1..Len(CutSecondInputs) |-> [cut_second |-> CutSecondInputs[c]]]
    \o << EmptyDict,
          [amplitude |-> R(1)],
          [signal_start_channel |-> "CH9"] >>

ChannelNameInputs == {"CH1", "CH2", "CH9"}
CriterionInputs == {R(1)}

(***************************************************************************)
(* State: the processor object and the outcome of the last call on it.     *)
(***************************************************************************)
\* thr: where the two threads of the concurrent specification stand; the
\* sequential specification leaves it alone
VARIABLES self, ret, thr

vars == <<self, ret, thr>>

Idle == [rpc |-> "idle", wpc |-> "idle", cropped |-> <<>>, arg |-> <<>>, old |-> <<>>]

Outcome(name, arg, r) == [op |-> name, arg |-> arg, exc |-> r.exc, val |-> r.val]

Init ==
    \E k \in 1..Len(ChannelSets), p \in 1..Len(InitialParams) :
        /\ self = __init__([channels |-> ChannelSets[k].channels,
                            order |-> ChannelSets[k].order,
                            params |-> InitialParams[p]])
        /\ ret = [op |-> "__init__", arg |-> <<>>, exc |-> "none", val |-> <<>>]
        /\ thr = Idle

call_update_params ==
    \E k \in 1..Len(UpdateInputs) :
        \E r \in {update_params(self, UpdateInputs[k])} :
            /\ self' = r.self
            /\ ret' = Outcome("update_params", <<>>, r)
            /\ UNCHANGED thr

call_set_signal_start_channel ==
    \E name \in ChannelNameInputs :
        \E r \in {set_signal_start_channel(self, name)} :
            /\ self' = r.self
            /\ ret' = Outcome("set_signal_start_channel", name, r)
            /\ UNCHANGED thr

call_calculate_frequency_forecast ==
    \E name \in ChannelNameInputs, c \in CriterionInputs :
        \E r \in {calculate_frequency_forecast(self, name, c)} :
            /\ self' = r.self
            /\ ret' = Outcome("calculate_frequency_forecast", <<name, c>>, r)
            /\ UNCHANGED thr

read_raw_data ==
    \E r \in {raw_data(self)} :
        /\ self' = r.self
        /\ ret' = Outcome("raw_data", <<>>, r)
        /\ UNCHANGED thr

read_smoothed_data ==
    \E r \in {smoothed_data(self)} :
        /\ self' = r.self
        /\ ret' = Outcome("smoothed_data", <<>>, r)
        /\ UNCHANGED thr

read_cropped_data ==
    \E r \in {cropped_data(self)} :
        /\ self' = r.self
        /\ ret' = Outcome("cropped_data", <<>>, r)
        /\ UNCHANGED thr

read_rawplot ==
    \E r \in {rawplot(self)} :
        /\ self' = r.self
        /\ ret' = Outcome("rawplot", <<>>, r)
        /\ UNCHANGED thr

read_smoothedplot ==
    \E r \in {smoothedplot(self)} :
        /\ self' = r.self
        /\ ret' = Outcome("smoothedplot", <<>>, r)
        /\ UNCHANGED thr

read_freqresponse_linear ==
    \E r \in {freqresponse_linear(self)} :
        /\ self' = r.self
        /\ ret' = Outcome("freqresponse_linear", <<>>, r)
        /\ UNCHANGED thr

read_freqresponse_dB ==
    \E r \in {freqresponse_dB(self)} :
        /\ self' = r.self
        /\ ret' = Outcome("freqresponse_dB", <<>>, r)
        /\ UNCHANGED thr

read_channel_parameters ==
    \E r \in {channel_parameters(self)} :
        /\ self' = r.self
        /\ ret' = Outcome("channel_parameters", <<>>, r)
        /\ UNCHANGED thr

read_analysis_start_time ==
    \E r \in {analysis_start_time(self)} :
        /\ self' = r.self
        /\ ret' = Outcome("analysis_start_time", <<>>, r)
        /\ UNCHANGED thr

read_raw_max_amp ==
    \E r \in {raw_max_amp(self)} :
        /\ self' = r.self
        /\ ret' = Outcome("raw_max_amp", <<>>, r)
        /\ UNCHANGED thr

read_raw_min_amp ==
    \E r \in {raw_min_amp(self)} :
        /\ self' = r.self
        /\ ret' = Outcome("raw_min_amp", <<>>, r)
        /\ UNCHANGED thr

read_raw_maxamp_idx ==
    \E r \in {raw_maxamp_idx(self)} :
        /\ self' = r.self
        /\ ret' = Outcome("raw_maxamp_idx", <<>>, r)
        /\ UNCHANGED thr

read_raw_minamp_idx ==
    \E r \in {raw_minamp_idx(self)} :
        /\ self' = r.self
        /\ ret' = Outcome("raw_minamp_idx", <<>>, r)
        /\ UNCHANGED thr

Read ==
    \/ read_raw_data
    \/ read_smoothed_data
    \/ read_cropped_data
    \/ read_rawplot
    \/ read_smoothedplot
    \/ read_freqresponse_linear
    \/ read_freqresponse_dB
    \/ read_channel_parameters
    \/ read_analysis_start_time
    \/ read_raw_max_amp
    \/ read_raw_min_amp
    \/ read_raw_maxamp_idx
    \/ read_raw_minamp_idx

Next ==
    \/ call_update_params
    \/ call_set_signal_start_channel
    \/ call_calculate_frequency_forecast
    \/ Read

Spec == Init /\ [][Next]_vars

(***************************************************************************)
(* A processor over a swept record: the reference channel CH1 has its raw  *)
(* peak at the second sample and its largest smoothed amplitude inside     *)
(* the crop window; CH2 is a pulse. The caller hands update_params all six *)
(* analysis parameters at once, as the parameter dialog does.              *)
(***************************************************************************)
SweepA(n) ==
    [i \in 1..n |-> IF i = 1 THEN R(0)
                    ELSE IF i = 2 THEN R(5)
                    ELSE IF i = n - 3 THEN R(-8)
                    ELSE IF i % 2 = 1 THEN R(1) ELSE R(-1)]

SweepSet ==
    [channels |-> [CH1 |-> Frame(TimeAxis(NumSamples), SweepA(NumSamples)),
                   CH2 |-> Frame(TimeAxis(NumSamples), PulseB(NumSamples))],
     order |-> <<"CH1", "CH2">>]

RecordTimeInputs == {R(2), R(10), Rat(21, 2), R(12)}
OffsetInputs == {Rat(-3, 2), R(0), Rat(3, 2)}
FixedLevelInputs == {Rat(6, 10), Rat(5, 2)}
SweepCriterionInputs == {R(1), Rat(1, 2)}

InitSweep ==
    /\ self = __init__([channels |-> SweepSet.channels,
                        order |-> SweepSet.order,
                        params |-> DictSet(BaseParams, "signal_start_channel",
                                           "CH1")])
    /\ ret = [op |-> "__init__", arg |-> <<>>, exc |-> "none", val |-> <<>>]
    /\ thr = Idle

sweep_update_params ==
    \E record_time \in RecordTimeInputs, cut_second \in OffsetInputs,
       g \in 1..MaxGain, fixedlevel \in FixedLevelInputs :
        \E r \in {update_params(self,
                                 [start_freq |-> self.params["start_freq"],
                                  end_freq |-> self.params["end_freq"],
                                  record_time |-> record_time,
                                  cut_second |-> cut_second,
                                  gain |-> R(g),
                                  fixedlevel |-> fixedlevel])} :
            /\ self' = r.self
            /\ ret' = Outcome("update_params", <<>>, r)
            /\ UNCHANGED thr

sweep_calculate_frequency_forecast ==
    \E name \in ChannelNameInputs, c \in SweepCriterionInputs :
        \E r \in {calculate_frequency_forecast(self, name, c)} :
            /\ self' = r.self
            /\ ret' = Outcome("calculate_frequency_forecast", <<name, c>>, r)
            /\ UNCHANGED thr

NextSweep ==
    \/ sweep_update_params
    \/ sweep_calculate_frequency_forecast
    \/ read_cropped_data
    \/ read_freqresponse_linear
    \/ read_freqresponse_dB
    \/ read_channel_parameters
    \/ read_analysis_start_time

SpecSweep == InitSweep /\ [][NextSweep]_vars

(***************************************************************************)
(* The sweep processor with gains of either sign and thresholds on either  *)
(* side of the response: update_params takes any number for 'gain' and     *)
(* 'fixedlevel'.                                                           *)
(***************************************************************************)
SignedGainInputs == {R(-1), R(1)}
SignedLevelInputs == {Rat(-3, 2), Rat(6, 10), Rat(5, 2)}

signed_update_params ==
    \E record_time \in RecordTimeInputs, cut_second \in OffsetInputs,
       gain \in SignedGainInputs, fixedlevel \in SignedLevelInputs :
        \E r \in {update_params(self,
                                 [record_time |-> record_time,
                                  cut_second |-> cut_second,
                                  gain |-> gain,
                                  fixedlevel |-> fixedlevel])} :
            /\ self' = r.self
            /\ ret' = Outcome("update_params", <<>>, r)
            /\ UNCHANGED thr

NextSigned ==
    \/ signed_update_params
    \/ read_freqresponse_linear
    \/ read_channel_parameters

SpecSigned == InitSweep /\ [][NextSigned]_vars

(***************************************************************************)
(* A processor over one long record: ScenarioSamples samples evenly spaced *)
(* over one second, a unit pulse at sample peak and a deeper negative dip   *)
(* seven samples later. The operations are the                             *)
(* signal-start locator, the read that shows where the analysis starts,    *)
(* and update_params with a new offset.                                    *)
(***************************************************************************)
ScenarioSamples == 1000

ScenarioPeaks == {0, 250, 500, 950}
ScenarioOffsets == {Rat(-1, 10), R(0), Rat(1, 20), Rat(1, 10), Rat(6, 10)}

ScenarioChannel(n, peak) ==
    Frame([i \in 1..n |-> Rat(i - 1, n - 1)],
          [i \in 1..n |-> IF i = peak + 1 THEN R(1)
                          ELSE IF i = peak + 8 THEN R(-2) ELSE R(0)])

InitLocator ==
    \E peak \in ScenarioPeaks, cut_second \in ScenarioOffsets :
        /\ self = __init__([channels |->
                                [REF |-> ScenarioChannel(ScenarioSamples, peak)],
                            order |-> <<"REF">>,
                            params |-> [start_freq |-> R(1), end_freq |-> R(3),
                                        record_time |-> R(1),
                                        cut_second |-> cut_second,
                                        fixedlevel |-> Rat(6, 10),
                                        gain |-> R(1),
                                        signal_start_channel |-> "REF"]])
        /\ ret = [op |-> "__init__", arg |-> <<>>, exc |-> "none", val |-> <<>>]
        /\ thr = Idle

locator_update_params ==
    \E cut_second \in ScenarioOffsets :
        \E r \in {update_params(self, [cut_second |-> cut_second])} :
            /\ self' = r.self
            /\ ret' = Outcome("update_params", <<>>, r)
            /\ UNCHANGED thr

call__get_signal_start_index ==
    \E r \in {_get_signal_start_index(self)} :
        /\ self' = r.self
        /\ ret' = Outcome("_get_signal_start_index", <<>>, r)
        /\ UNCHANGED thr

NextLocator ==
    \/ locator_update_params
    \/ call__get_signal_start_index
    \/ read_analysis_start_time

SpecLocator == InitLocator /\ [][NextLocator]_vars

(***************************************************************************)
(* Processors over mappings whose channels differ in sample count, hold a  *)
(* flat record, or carry a time axis that does not advance; the reference  *)
(* channel and the sweep limits change while the stages are read.          *)
(***************************************************************************)
Flat(n) == [i \in 1..n |-> R(1)]
StalledAxis(n) == [i \in 1..n |-> R(0)]
AxisSets ==
    << SweepSet,
       [channels |-> [CH1 |-> Frame(TimeAxis(NumSamples), SweepA(NumSamples)),
                      CH2 |-> Frame(TimeAxis(NumSamples - 4),
                                    Flat(NumSamples - 4))],
        order |-> <<"CH1", "CH2">>],
       [channels |-> [CH1 |-> Frame(StalledAxis(NumSamples), SweepA(NumSamples))],
        order |-> <<"CH1">>] >>

AxisRecordTimeInputs == {R(2), R(10)}
EndFreqInputs == {R(3), R(5)}
AxisLevelInputs == {R(2)}

InitAxes ==
    \E k \in 1..Len(AxisSets) :
        /\ self = __init__([channels |-> AxisSets[k].channels,
                            order |-> AxisSets[k].order,
                            params |-> DictSet(BaseParams, "signal_start_channel",
                                               "CH1")])
        /\ ret = [op |-> "__init__", arg |-> <<>>, exc |-> "none", val |-> <<>>]
        /\ thr = Idle

axes_update_params ==
    \E record_time \in AxisRecordTimeInputs, cut_second \in OffsetInputs,
       end_freq \in EndFreqInputs, fixedlevel \in AxisLevelInputs :
        \E r \in {update_params(self,
                                 [start_freq |-> self.params["start_freq"],
                                  end_freq |-> end_freq,
                                  record_time |-> record_time,
                                  cut_second |-> cut_second,
                                  gain |-> self.params["gain"],
                                  fixedlevel |-> fixedlevel])} :
            /\ self' = r.self
            /\ ret' = Outcome("update_params", <<>>, r)
            /\ UNCHANGED thr

NextAxes ==
    \/ axes_update_params
    \/ call_set_signal_start_channel
    \/ call__get_signal_start_index
    \/ read_cropped_data
    \/ read_freqresponse_linear
    \/ read_freqresponse_dB
    \/ read_channel_parameters

SpecAxes == InitAxes /\ [][NextAxes]_vars

(***************************************************************************)
(* Two threads on one processor: a reader in the property                  *)
(* freqresponse_linear and a writer in update_params(thr.arg). Processor   *)
(* takes no lock, so the threads interleave between statements. A step     *)
(* here is one statement of _get_freq_response_data or of update_params;   *)
(* the call of _get_cropped_data is taken as one step. thr.old keeps the   *)
(* parameter set the two calls started from, ret the reader's outcome.     *)
(***************************************************************************)
InitConc ==
    \E k \in 1..Len(ChannelSets), p \in 1..Len(InitialParams),
       a \in 1..Len(UpdateInputs), warm \in BOOLEAN :
        \E fresh \in {__init__([channels |-> ChannelSets[k].channels,
                                order |-> ChannelSets[k].order,
                                params |-> InitialParams[p]])} :
            /\ self = IF warm THEN channel_parameters(fresh).self ELSE fresh
            /\ ret = [op |-> "__init__", arg |-> <<>>, exc |-> "none", val |-> <<>>]
            /\ thr = [rpc |-> "check", wpc |-> "update", cropped |-> <<>>,
                      arg |-> UpdateInputs[a], old |-> InitialParams[p]]

\* reader: if 'freq_response' in self._cache
reader_check ==
    /\ thr.rpc = "check"
    /\ thr' = [thr EXCEPT !.rpc = IF "freq_response" \in DOMAIN self._cache
                                  THEN "fetch" ELSE "crop"]
    /\ UNCHANGED <<self, ret>>

\* reader: return self._cache['freq_response']
reader_fetch ==
    /\ thr.rpc = "fetch"
    /\ \E r \in { IF "freq_response" \in DOMAIN self._cache
                   THEN Return(self, RoundLinear(self._cache["freq_response"]))
                   ELSE Raise(self, "KeyError") } :
           ret' = Outcome("freqresponse_linear", <<>>, r)
    /\ thr' = [thr EXCEPT !.rpc = "done"]
    /\ UNCHANGED self

\* reader: cropped_data = self._get_cropped_data()
reader_crop ==
    /\ thr.rpc = "crop"
    /\ \E r \in {_get_cropped_data(self)} :
           /\ self' = r.self
           /\ IF r.exc = "none"
              THEN /\ thr' = [thr EXCEPT !.rpc = "freq", !.cropped = r.val]
                   /\ UNCHANGED ret
              ELSE /\ thr' = [thr EXCEPT !.rpc = "done"]
                   /\ ret' = Outcome("freqresponse_linear", <<>>, r)

\* reader: the rest of _get_freq_response_data, on the cropped data it holds
\* and the attributes as they are now, and the rounding of the wrapper
reader_freq ==
    /\ thr.rpc = "freq"
    /\ \E r \in {FreqResponseFrom(Return(self, thr.cropped))} :
           /\ self' = r.self
           /\ ret' = Outcome("freqresponse_linear", <<>>, Rounded(r, RoundLinear(r.val)))
    /\ thr' = [thr EXCEPT !.rpc = "done", !.cropped = <<>>]

\* writer: self.params.update(new_params)
writer_update ==
    /\ thr.wpc = "update"
    /\ self' = [self EXCEPT !.params = DictUpdate(self.params, thr.arg)]
    /\ thr' = [thr EXCEPT !.wpc = "derive"]
    /\ UNCHANGED ret

\* writer: self._update_derived_params()
writer_derive ==
    /\ thr.wpc = "derive"
    /\ self' = _update_derived_params(self)
    /\ thr' = [thr EXCEPT !.wpc = "cropped_data"]
    /\ UNCHANGED ret

\* writer: one turn of the loop over keys_to_clear
writer_clear ==
    /\ thr.wpc \in Tier1Keys
    /\ self' = [self EXCEPT !._cache = IF thr.wpc \in DOMAIN self._cache
                                        THEN DictDel(self._cache, thr.wpc)
                                        ELSE self._cache]
    /\ thr' = [thr EXCEPT !.wpc = CASE thr.wpc = "cropped_data" -> "freq_response"
                                   [] thr.wpc = "freq_response" -> "channel_parameters"
                                   [] OTHER -> "done"]
    /\ UNCHANGED ret

NextConc ==
    \/ reader_check
    \/ reader_fetch
    \/ reader_crop
    \/ reader_freq
    \/ writer_update
    \/ writer_derive
    \/ writer_clear

SpecConc == InitConc /\ [][NextConc]_vars

\* ---------------------------------------------------------------------------
\* Properties
\* ---------------------------------------------------------------------------

\* two calls had the same outcome: the same exception, or both returned and
\* returned equal values
SameOutcome(r1, r2) == r1.exc = r2.exc /\ (r1.exc = "none" => r1.val = r2.val)

\* a newly constructed processor over the same channels and the current
\* parameter set
Fresh(s) == __init__([channels |-> s.channels, order |-> s.channel_order,
                      params |-> s.params])

\* C1: in every state reached by any sequence of update_params,
\* set_signal_start_channel and reads, each Tier-1 read (cropped_data,
\* freqresponse_linear, freqresponse_dB, channel_parameters,
\* analysis_start_time) returns exactly what a newly constructed processor
\* over the same channels and the current parameter set returns: no memoized
\* value of an earlier parameter set is ever served.
C1_NoStaleTier1 ==
    \E fresh \in {Fresh(self)} :
        /\ SameOutcome(cropped_data(self), cropped_data(fresh))
        /\ SameOutcome(freqresponse_linear(self), freqresponse_linear(fresh))
        /\ SameOutcome(freqresponse_dB(self), freqresponse_dB(fresh))
        /\ SameOutcome(channel_parameters(self), channel_parameters(fresh))
        /\ SameOutcome(analysis_start_time(self), analysis_start_time(fresh))

\* a Tier-1 read has returned, from a full Tier-1 cache, under a gain and an
\* offset that only update_params can have installed
C1_Witness ==
    /\ ret.op = "freqresponse_linear"
    /\ ret.exc = "none"
    /\ self.gain = R(MaxGain)
    /\ self.cut_second = CutSecondInputs[2]
    /\ Tier1Keys \subseteq DOMAIN self._cache

\* the parameter set new is old with the keys of partial overwritten or added
Merged(old, partial, new) ==
    /\ DOMAIN new = DOMAIN old \cup DOMAIN partial
    /\ \A key \in DOMAIN new :
           new[key] = IF key \in DOMAIN partial THEN partial[key] ELSE old[key]

\* C2: every update_params step, whatever the partial (a parameter the
\* Tier-1 values depend on, an unrelated key, or the empty mapping), merges
\* the partial into the parameter set, raises nothing and leaves none of the
\* three Tier-1 entries cropped_data, freq_response, channel_parameters in
\* the cache: the entries are removed, not marked.
C2_UpdateDropsTier1 ==
    [][ret'.op = "update_params" =>
          /\ ret'.exc = "none"
          /\ Tier1Keys \cap DOMAIN self'._cache = {}
          /\ \E k \in 1..Len(UpdateInputs) :
                 Merged(self.params, UpdateInputs[k], self'.params)]_vars

\* update_params has returned on a processor whose Tier-0 artifacts are
\* memoized, and no Tier-1 entry is left
C2_Witness ==
    /\ ret.op = "update_params"
    /\ {"raw_extremums", "smoothed_data"} \subseteq DOMAIN self._precomputed
    /\ Tier1Keys \cap DOMAIN self._cache = {}
    /\ "signal_start_channel" \in DOMAIN self.params
    /\ self.params["signal_start_channel"] = "CH1"

Tier0Keys == {"raw_extremums", "smoothed_data"}

\* a processor constructed over the same channels with the caller's default
\* parameter set
FreshDefault(s) == __init__([channels |-> s.channels, order |-> s.channel_order,
                             params |-> BaseParams])

\* the Tier-0 reads return what they return on a processor that was
\* constructed over the same channels and never mutated
Tier0ReadsOfChannelsOnly ==
    \E fresh \in {FreshDefault(self)} :
        /\ SameOutcome(smoothed_data(self), smoothed_data(fresh))
        /\ SameOutcome(raw_max_amp(self), raw_max_amp(fresh))
        /\ SameOutcome(raw_min_amp(self), raw_min_amp(fresh))
        /\ SameOutcome(raw_maxamp_idx(self), raw_maxamp_idx(fresh))
        /\ SameOutcome(raw_minamp_idx(self), raw_minamp_idx(fresh))

\* C3: a Tier-0 artifact (raw_extremums, smoothed_data), once memoized, is
\* never removed and never changed by any step, and is computed at most once:
\* while it is memoized its precompute method hands back the memo and leaves
\* the processor as it is. No step changes the channels, and in every state
\* smoothed_data, raw_max_amp, raw_min_amp, raw_maxamp_idx and raw_minamp_idx
\* return what they return on a never-mutated processor over the same
\* channels, hence the same values before and after every mutating operation.
C3_Tier0Kept ==
    /\ []Tier0ReadsOfChannelsOnly
    /\ [][/\ self'.channels = self.channels
          /\ \A key \in DOMAIN self._precomputed :
                 /\ key \in DOMAIN self'._precomputed
                 /\ self'._precomputed[key] = self._precomputed[key]
          /\ "raw_extremums" \in DOMAIN self._precomputed =>
                 _precompute_raw_extremums(self') =
                     Return(self', self._precomputed["raw_extremums"])
          /\ "smoothed_data" \in DOMAIN self._precomputed =>
                 _precompute_smoothed_data(self') =
                     Return(self', self._precomputed["smoothed_data"])]_vars

\* both mutating operations have acted on a processor that holds both
\* Tier-0 artifacts
C3_Witness ==
    /\ ret.op = "set_signal_start_channel"
    /\ ret.arg = "CH2"
    /\ self.gain = R(MaxGain)
    /\ Tier0Keys \subseteq DOMAIN self._precomputed

\* C4: a set_signal_start_channel(name) step never raises. When name is a
\* key of the channel mapping it makes name the reference channel, leaves
\* every other parameter as it is and leaves no Tier-1 entry in the cache;
\* when name is not a key, the parameter set, every cache entry and the rest
\* of the processor are unchanged.
C4_SetSignalStartChannel ==
    [][ret'.op = "set_signal_start_channel" =>
          /\ ret'.exc = "none"
          /\ IF ret'.arg \in DOMAIN self.channels
             THEN /\ Merged(self.params,
                            [signal_start_channel |-> ret'.arg], self'.params)
                  /\ Tier1Keys \cap DOMAIN self'._cache = {}
                  /\ self'._precomputed = self._precomputed
             ELSE self' = self]_vars

\* the call with a name that is no key has returned on a processor whose
\* reference channel is CH1 and whose three Tier-1 entries are memoized
C4_Witness ==
    /\ ret.op = "set_signal_start_channel"
    /\ ret.arg = "CH9"
    /\ "signal_start_channel" \in DOMAIN self.params
    /\ self.params["signal_start_channel"] = "CH1"
    /\ Tier1Keys \subseteq DOMAIN self._cache

\* an update_params step that changed the gain and no other parameter
GainOnlyStep ==
    /\ ret'.op = "update_params"
    /\ DOMAIN self'.params = DOMAIN self.params
    /\ "gain" \in DOMAIN self.params
    /\ self'.params["gain"] # self.params["gain"]
    /\ \A key \in DOMAIN self.params \ {"gain"} :
           self'.params[key] = self.params[key]

\* both reads returned and returned different values
ReturnedDifferent(before, after) ==
    (before.exc = "none" /\ after.exc = "none") => after.val # before.val

\* the smoothed samples of the crop window, all channels together
WindowSamples(cropped) ==
    UNION { { cropped[name].Smoothed[i] : i \in 1..Len(cropped[name].Smoothed) } :
            name \in DOMAIN cropped }

\* the largest smoothed sample of each channel's crop window
WindowPeaks(cropped) ==
    { cropped[name].Smoothed[ArgMax(cropped[name].Smoothed) + 1] :
      name \in {n \in DOMAIN cropped : Len(cropped[n].Smoothed) > 0} }

C6_RepeatedRead ==
    ret.op = "channel_parameters" =>
        \E again \in {channel_parameters(self)} :
            /\ SameOutcome(again, ret)
            /\ again.self = self

\* channel_parameters has returned a value with a nonzero peak under the
\* largest gain, and the value is memoized
C6_Witness ==
    /\ ret.op = "channel_parameters"
    /\ ret.exc = "none"
    /\ self.gain = R(MaxGain)
    /\ "channel_parameters" \in DOMAIN self._cache
    /\ \E name \in DOMAIN self._cache["channel_parameters"] :
           ~IsZero(self._cache["channel_parameters"][name].max_amplitude)

ReadOps ==
    {"raw_data", "smoothed_data", "cropped_data", "rawplot", "smoothedplot",
     "freqresponse_linear", "freqresponse_dB", "channel_parameters",
     "analysis_start_time", "raw_max_amp", "raw_min_amp", "raw_maxamp_idx",
     "raw_minamp_idx", "calculate_frequency_forecast"}

\* every read operation and every calculate_frequency_forecast call has, in
\* this state, the outcome it has on a newly constructed processor over the
\* same channels and the current parameter set: what a read returns depends
\* on the channels and the parameter set only, not on the reads made before
ReadsOfChannelsAndParamsOnly ==
    \E fresh \in {Fresh(self)} :
        /\ SameOutcome(raw_data(self), raw_data(fresh))
        /\ SameOutcome(smoothed_data(self), smoothed_data(fresh))
        /\ SameOutcome(cropped_data(self), cropped_data(fresh))
        /\ SameOutcome(rawplot(self), rawplot(fresh))
        /\ SameOutcome(smoothedplot(self), smoothedplot(fresh))
        /\ SameOutcome(freqresponse_linear(self), freqresponse_linear(fresh))
        /\ SameOutcome(freqresponse_dB(self), freqresponse_dB(fresh))
        /\ SameOutcome(channel_parameters(self), channel_parameters(fresh))
        /\ SameOutcome(analysis_start_time(self), analysis_start_time(fresh))
        /\ SameOutcome(raw_max_amp(self), raw_max_amp(fresh))
        /\ SameOutcome(raw_min_amp(self), raw_min_amp(fresh))
        /\ SameOutcome(raw_maxamp_idx(self), raw_maxamp_idx(fresh))
        /\ SameOutcome(raw_minamp_idx(self), raw_minamp_idx(fresh))
        /\ \A name \in ChannelNameInputs, c \in CriterionInputs :
               SameOutcome(calculate_frequency_forecast(self, name, c),
                           calculate_frequency_forecast(fresh, name, c))

\* C7: a step of a read operation or of calculate_frequency_forecast leaves
\* the channels, the parameter set and the attributes derived from it
\* unchanged; its only effect on the processor is to add memo entries, the
\* entries already there staying as they are. As the outcome of every read
\* in every state is that of a newly constructed processor over the same
\* channels and parameter set, no such step changes what any later read
\* returns.
C7_ReadsAreReadOnly ==
    /\ []ReadsOfChannelsAndParamsOnly
    /\ [][ret'.op \in ReadOps =>
             /\ [self' EXCEPT !._cache = self._cache,
                              !._precomputed = self._precomputed] = self
             /\ \A key \in DOMAIN self._cache :
                    /\ key \in DOMAIN self'._cache
                    /\ self'._cache[key] = self._cache[key]
             /\ \A key \in DOMAIN self._precomputed :
                    /\ key \in DOMAIN self'._precomputed
                    /\ self'._precomputed[key] = self._precomputed[key]]_vars

\* a forecast has been returned after reads filled every memo entry
C7_Witness ==
    /\ ret.op = "calculate_frequency_forecast"
    /\ ret.exc = "none"
    /\ ret.val # <<>>
    /\ Tier1Keys \subseteq DOMAIN self._cache
    /\ {"raw_data", "raw_extremums", "smoothed_data"} \subseteq DOMAIN self._precomputed

\* the reference channel: signal_start_channel is set and names no channel
NamesNoChannel ==
    /\ "signal_start_channel" \in DOMAIN self.params
    /\ self.params["signal_start_channel"] \notin DOMAIN self.channels

\* C9: in every state whose signal_start_channel names no channel of the
\* mapping, freqresponse_linear, freqresponse_dB, channel_parameters and
\* analysis_start_time complete without raising, the two frequency responses
\* being empty for every channel and analysis_start_time being 0.
C9_DegradesWithoutRaising ==
    NamesNoChannel =>
        \E fl \in {freqresponse_linear(self)}, fdb \in {freqresponse_dB(self)},
           cp \in {channel_parameters(self)}, ast \in {analysis_start_time(self)} :
            /\ fl.exc = "none"
            /\ fdb.exc = "none"
            /\ cp.exc = "none"
            /\ ast.exc = "none"
            /\ \A name \in DOMAIN fl.val : Len(fl.val[name].amplitude) = 0
            /\ \A name \in DOMAIN fdb.val : Len(fdb.val[name].db_amplitude) = 0
            /\ IsZero(ast.val)

\* the reference channel is missing (signal_start_channel is absent from the
\* parameter set or names no channel) or has fewer than 2 samples
ReferenceUnusable ==
    \/ "signal_start_channel" \notin DOMAIN self.params
    \/ self.params["signal_start_channel"] \notin DOMAIN self.channels
    \/ Len(self.channels[self.params["signal_start_channel"]].Time) < 2

\* C10: in every state whose reference channel is missing or has fewer than
\* 2 samples, the signal-start locator returns 0, the crop indices describe
\* an empty window, and the read of cropped_data raises nothing and returns
\* an empty window for every channel.
C10_LocatorDegrades ==
    ReferenceUnusable =>
        \E start \in {_get_signal_start_index(self)},
           indices \in {_get_cropped_indices(self)},
           cropped \in {cropped_data(self)} :
            /\ start.exc = "none"
            /\ start.val = 0
            /\ indices.exc = "none"
            /\ indices.val[2] = 0
            /\ cropped.exc = "none"
            /\ \A name \in DOMAIN cropped.val : Len(cropped.val[name].Time) = 0

\* the Tier-1 entries a newly constructed processor over the same channels
\* and the current parameter set memoizes on a read of channel_parameters
FreshTier1(s) == _get_channel_parameters(Fresh(s)).self._cache

\* C8: with a read of freqresponse_linear running concurrently with
\* update_params on the same processor, the value the read returns is the
\* value computed wholly from the parameter set before the update or wholly
\* from the one after it, and once both calls have completed every Tier-1
\* entry the cache retains is the one computed from the current parameter
\* set.
C8_NoPartialInvalidation ==
    /\ (thr.rpc = "done" /\ ret.exc = "none") =>
           \E params \in {thr.old, DictUpdate(thr.old, thr.arg)} :
               SameOutcome(ret,
                           freqresponse_linear(
                               __init__([channels |-> self.channels,
                                         order |-> self.channel_order,
                                         params |-> params])))
    /\ (thr.rpc = "done" /\ thr.wpc = "done") =>
           \E fresh \in {FreshTier1(self)} :
               \A key \in Tier1Keys \cap DOMAIN self._cache :
                   /\ key \in DOMAIN fresh
                   /\ self._cache[key] = fresh[key]

\* C11: in every state, for every channel name that has no entry in
\* channel_parameters (the read raises, or returns a mapping without the
\* name), calculate_frequency_forecast raises nothing and returns None.
C11_ForecastNullWithoutEntry ==
    \A name \in ChannelNameInputs, c \in CriterionInputs :
        \E cp \in {channel_parameters(self)},
           forecast \in {calculate_frequency_forecast(self, name, c)} :
            (cp.exc # "none" \/ name \notin DOMAIN cp.val) =>
                /\ forecast.exc = "none"
                /\ forecast.val = <<>>

\* C12: in every state and for every channel that has channel parameters,
\* calculate_frequency_forecast(channel_name, c) raises nothing and returns
\* the pair (resonance - c * record_time / 2, resonance + c * record_time / 2),
\* resonance being the resonance_frequency that channel_parameters reports
\* for the channel now and record_time the current parameter: the interval
\* is centred on the resonance and c * record_time wide.
C12_ForecastInterval ==
    \A name \in ChannelNameInputs, c \in SweepCriterionInputs :
        \E cp \in {channel_parameters(self)},
           forecast \in {calculate_frequency_forecast(self, name, c)} :
            (cp.exc = "none" /\ name \in DOMAIN cp.val) =>
                /\ forecast.exc = "none"
                /\ Len(forecast.val) = 2
                /\ forecast.val[1].base = cp.val[name].resonance_frequency
                /\ forecast.val[2].base = cp.val[name].resonance_frequency
                /\ forecast.val[2].plus =
                       RDiv(RMul(c, self.params["record_time"]), R(2))
                /\ forecast.val[1].plus = RSub(R(0), forecast.val[2].plus)
                /\ RSub(forecast.val[2].plus, forecast.val[1].plus) =
                       RMul(c, self.params["record_time"])

\* a forecast has been returned for the swept channel under a record_time
\* that update_params installed, its resonance lying inside the band
C12_Witness ==
    /\ ret.op = "calculate_frequency_forecast"
    /\ ret.exc = "none"
    /\ ret.arg = <<"CH1", Rat(1, 2)>>
    /\ self.params["record_time"] = Rat(21, 2)
    /\ ret.val # <<>>
    /\ ret.val[2].plus = Rat(21, 8)
    /\ self._cache["channel_parameters"]["CH1"].resonance_frequency
           # self.start_freq

\* the reference channel's record as loaded
ReferenceChannel == self.channels[self.params["signal_start_channel"]]

\* requested_points = trunc(record_time / time_step), from the current
\* parameter and the reference channel's first two time stamps
RequestedPoints ==
    Trunc(RDiv(self.params["record_time"],
               RSub(ReferenceChannel.Time[2], ReferenceChannel.Time[1])))

\* max_possible_points = total_points - signal_start, signal_start being what
\* the locator returns now
MaxPossiblePoints ==
    Len(ReferenceChannel.Time) - _get_signal_start_index(self).val

\* every channel's crop window holds exactly n samples
WindowHolds(n) ==
    \E cropped \in {cropped_data(self)} :
        /\ cropped.exc = "none"
        /\ \A name \in DOMAIN cropped.val : Len(cropped.val[name].Time) = n

\* C13 as stated: whenever requested_points >= max_possible_points - 9, the
\* crop window contains exactly max_possible_points samples.
C13_FloorWithinNine ==
    RequestedPoints >= MaxPossiblePoints - 9 => WindowHolds(MaxPossiblePoints)

\* C13 amended: the crop window contains exactly max_possible_points samples
\* when requested_points >= max_possible_points or requested_points < 10, and
\* exactly requested_points samples when
\* 10 <= requested_points < max_possible_points.
C13_FloorBelowTen ==
    IF RequestedPoints >= MaxPossiblePoints \/ RequestedPoints < 10
    THEN WindowHolds(MaxPossiblePoints)
    ELSE WindowHolds(RequestedPoints)

\* cropped_data has returned a window of 10 samples although 11 were
\* possible and 10 >= 11 - 9 were requested
C13_Witness ==
    /\ ret.op = "cropped_data"
    /\ ret.exc = "none"
    /\ RequestedPoints = 10
    /\ MaxPossiblePoints = 11
    /\ Len(ret.val["CH1"].Time) = 10

\* the record the locator works on in the one-second scenario
ScenarioRecord == self.channels["REF"]
ScenarioPeak == ArgMax(ScenarioRecord.Amplitude)
ScenarioTimeStep == RSub(ScenarioRecord.Time[2], ScenarioRecord.Time[1])
Clamp(i, n) == IF i < 0 THEN 0 ELSE IF i > n - 1 THEN n - 1 ELSE i

\* C14 as stated: the locator returns the raw peak plus cut_second/time_step
\* ROUNDED to the nearest integer, clamped to [0, n - 1]; with 1000 samples
\* over one second, the peak at sample 500 and cut_second 0.1 that is 600.
C14_OffsetRounded ==
    \E r \in {_get_signal_start_index(self)} :
        /\ r.exc = "none"
        /\ r.val = Clamp(ScenarioPeak
                           + PyRound(RDiv(self.cut_second, ScenarioTimeStep)),
                         Len(ScenarioRecord.Time))

\* C14 amended: the locator returns the raw peak plus cut_second/time_step
\* TRUNCATED toward zero, clamped to [0, n - 1]; with 1000 samples over one
\* second (time_step 1/999), the peak at sample 500 and cut_second 0.1 the
\* offset is trunc(99.9) = 99 and the signal start is 599.
C14_OffsetTruncated ==
    \E r \in {_get_signal_start_index(self)} :
        /\ r.exc = "none"
        /\ r.val = Clamp(ScenarioPeak
                           + Trunc(RDiv(self.cut_second, ScenarioTimeStep)),
                         Len(ScenarioRecord.Time))
        /\ (/\ Len(ScenarioRecord.Time) = 1000
            /\ ScenarioTimeStep = Rat(1, 999)
            /\ ScenarioPeak = 500
            /\ self.cut_second = Rat(1, 10)) => r.val = 599

C14_Witness ==
    /\ ret.op = "_get_signal_start_index"
    /\ ret.exc = "none"
    /\ ret.val = 599
    /\ Len(ScenarioRecord.Time) = 1000
    /\ ScenarioTimeStep = Rat(1, 999)
    /\ ScenarioPeak = 500
    /\ self.cut_second = Rat(1, 10)

\* C15: the linear response is amplitude[i] = smoothed[i] * gain and the dB
\* response is computed from smoothed[i] alone, over the crop window; so a
\* processor and the same processor after update_params with any other gain
\* return identical freqresponse_dB.
C15_GainLinearOnly ==
    \E cropped \in {_get_cropped_data(self)},
       response \in {_get_freq_response_data(self)} :
        (cropped.exc = "none" /\ response.exc = "none") =>
            /\ \A name \in DOMAIN cropped.val :
                  LET smoothed == cropped.val[name].Smoothed
                      amplitude == response.val.linear[name].amplitude
                      db_amplitude == response.val.dB[name].db_amplitude
                  IN  /\ Len(amplitude) = Len(smoothed)
                      /\ Len(db_amplitude) = Len(smoothed)
                      /\ \A i \in 1..Len(smoothed) :
                            /\ amplitude[i] = RMul(smoothed[i], self.params["gain"])
                            /\ db_amplitude[i] = DB20Log10(smoothed[i])
            /\ \A g \in 1..(MaxGain + 1) :
                  SameOutcome(freqresponse_dB(self),
                              freqresponse_dB(update_params(self, [gain |-> R(g)]).self))

C15_Witness ==
    /\ ret.op = "freqresponse_dB"
    /\ ret.exc = "none"
    /\ self.params["gain"] = R(2)
    /\ \E i \in 1..Len(ret.val["CH1"].db_amplitude) :
          /\ ret.val["CH1"].db_amplitude[i] # DB20Log10(R(0))
          /\ self._cache["freq_response"].linear["CH1"].amplitude[i]
               = RMul(ret.val["CH1"].db_amplitude[i].twenty_log10_of, R(2))

\* C16: for every channel, channel_parameters[ch].max_amplitude is exactly
\* twice the maximum of the channel's linear response amplitude over the crop
\* window (the read returns that value through the 12-decimal rounding).
C16_MaxAmplitudeDoubled ==
    \E response \in {_get_freq_response_data(self)},
       params \in {_get_channel_parameters(self)},
       shown \in {channel_parameters(self)} :
        (response.exc = "none" /\ params.exc = "none") =>
            /\ DOMAIN params.val = DOMAIN response.val.linear
            /\ shown.exc = "none"
            /\ \A name \in DOMAIN params.val :
                  LET amplitude == response.val.linear[name].amplitude
                  IN  \E m \in 1..Len(amplitude) :
                        /\ \A j \in 1..Len(amplitude) : RLe(amplitude[j], amplitude[m])
                        /\ params.val[name].max_amplitude = RMul(R(2), amplitude[m])
                        /\ shown.val[name].max_amplitude
                             = RoundFloat(RMul(R(2), amplitude[m]))

C16_Witness ==
    /\ ret.op = "channel_parameters"
    /\ ret.exc = "none"
    /\ self.params["gain"] = R(2)
    /\ "freq_response" \in DOMAIN self._cache
    /\ ret.val["CH1"].max_amplitude # RoundFloat(R(0))
    /\ \E m \in 1..Len(self._cache["freq_response"].linear["CH1"].amplitude) :
          ret.val["CH1"].max_amplitude
            = RoundFloat(RMul(R(2), self._cache["freq_response"].linear["CH1"].amplitude[m]))

\* the 0-based samples of a linear response at or above 0.707 of its maximum
HalfPowerSamples(amplitude) ==
    {i \in 0..(Len(amplitude) - 1) :
        \E m \in 1..Len(amplitude) :
            /\ \A j \in 1..Len(amplitude) : RLe(amplitude[j], amplitude[m])
            /\ RLe(RMul(amplitude[m], Rat(707, 1000)), amplitude[i + 1])}

\* C17: q_factor is resonance_frequency / bandwidth_707 when bandwidth_707 > 0
\* and 0 otherwise, and computing it never divides by zero; when only one
\* sample (the maximum) is at or above the half-power level, bandwidth_707
\* and q_factor are both 0.
C17_QFactorGuarded ==
    \E response \in {_get_freq_response_data(self)},
       params \in {_get_channel_parameters(self)} :
        response.exc = "none" =>
            /\ params.exc # "ZeroDivisionError"
            /\ params.exc = "none" =>
                  \A name \in DOMAIN params.val :
                      LET p == params.val[name]
                      IN  /\ IF RLt(R(0), p.bandwidth_707)
                             THEN p.q_factor = RDiv(p.resonance_frequency,
                                                    p.bandwidth_707)
                             ELSE p.q_factor = R(0)
                          /\ Cardinality(HalfPowerSamples(
                                 response.val.linear[name].amplitude)) = 1
                               => /\ p.bandwidth_707 = R(0)
                                  /\ p.q_factor = R(0)

C17_Witness ==
    /\ ret.op = "channel_parameters"
    /\ ret.exc = "none"
    /\ "freq_response" \in DOMAIN self._cache
    /\ "channel_parameters" \in DOMAIN self._cache
    /\ Cardinality(HalfPowerSamples(
           self._cache["freq_response"].linear["CH2"].amplitude)) = 1
    /\ self._cache["channel_parameters"]["CH2"].q_factor = R(0)
    /\ RLt(R(0), self._cache["channel_parameters"]["CH1"].bandwidth_707)
    /\ RLt(R(0), self._cache["channel_parameters"]["CH1"].q_factor)

\* the 0-based samples of a linear response at or above a fixed level
FixedLevelSamples(amplitude, level) ==
    {i \in 0..(Len(amplitude) - 1) : RLe(level, amplitude[i + 1])}

\* C18: for each of the two thresholds on its own, when no sample of the
\* channel's linear response is at or above the threshold, the bandwidth is 0
\* and its range is (0, 0); for the half-power threshold q_factor is then 0
\* too; and no exception is raised.
C18_NoSampleAtThreshold ==
    \E response \in {_get_freq_response_data(self)},
       params \in {_get_channel_parameters(self)},
       shown \in {channel_parameters(self)} :
        response.exc = "none" =>
            /\ params.exc = "none"
            /\ shown.exc = "none"
            /\ \A name \in DOMAIN response.val.linear :
                  LET amplitude == response.val.linear[name].amplitude
                      p == params.val[name]
                  IN  /\ HalfPowerSamples(amplitude) = {}
                           => /\ p.bandwidth_707 = R(0)
                              /\ p.bandwidth_707_range = <<R(0), R(0)>>
                              /\ p.q_factor = R(0)
                              /\ shown.val[name].q_factor = RoundFloat(R(0))
                      /\ FixedLevelSamples(amplitude, self.params["fixedlevel"]) = {}
                           => /\ p.bandwidth_fixed = R(0)
                              /\ p.bandwidth_fixed_range = <<R(0), R(0)>>
                              /\ shown.val[name].bandwidth_fixed = RoundFloat(R(0))

C18_Witness ==
    /\ ret.op = "channel_parameters"
    /\ ret.exc = "none"
    /\ "freq_response" \in DOMAIN self._cache
    /\ HalfPowerSamples(self._cache["freq_response"].linear["CH1"].amplitude) = {}
    /\ FixedLevelSamples(self._cache["freq_response"].linear["CH1"].amplitude,
                         self.params["fixedlevel"]) # {}
    /\ ret.val["CH1"].bandwidth_707 = RoundFloat(R(0))
    /\ ret.val["CH1"].bandwidth_707_range = <<RoundFloat(R(0)), RoundFloat(R(0))>>
    /\ ret.val["CH1"].q_factor = RoundFloat(R(0))

\* d with up to k factors p divided out
RECURSIVE Strip(_, _, _)
Strip(d, p, k) == IF k = 0 \/ d % p # 0 THEN d ELSE Strip(d \div p, p, k - 1)

\* the float x has at most 12 decimals: round(x, 12) leaves it as it is
HasTwelveDecimals(x) ==
    Strip(Strip(x[2], 2, _rounding_precision), 5, _rounding_precision) = 1

\* C19: every read except freqresponse_dB, raw_maxamp_idx and raw_minamp_idx
\* returns its values through the 12-decimal rounding (analysis_start_time,
\* cropped_data, smoothedplot and channel_parameters among them), and those
\* three return the values as they were computed.
C19_ReadsRounded ==
    \E cropped \in {_get_cropped_data(self)} :
        cropped.exc = "none" =>
            /\ \E start \in {analysis_start_time(self)} :
                  start.exc = "none" => HasTwelveDecimals(start.val)
            /\ cropped_data(self).val = RoundFrames(cropped.val)
            /\ smoothedplot(self).val = SmoothedPlot(cropped.val)
            /\ \E params \in {_get_channel_parameters(self)} :
                  params.exc = "none" =>
                      channel_parameters(self).val = RoundChannelParams(params.val)
            /\ \E response \in {_get_freq_response_data(self)} :
                  response.exc = "none" =>
                      freqresponse_dB(self).val = response.val.dB
            /\ \E extremums \in {_precompute_raw_extremums(self)} :
                  extremums.exc = "none" =>
                      /\ raw_maxamp_idx(self).val
                           = [name \in DOMAIN extremums.val |->
                                 extremums.val[name].maxamp_idx]
                      /\ raw_minamp_idx(self).val
                           = [name \in DOMAIN extremums.val |->
                                 extremums.val[name].minamp_idx]

\* C20: in every reachable state, update_params included, the raw_data read
\* returns for every channel of the input the channel's time and amplitude
\* sequences, each value rounded to 12 decimals, in the same order and of
\* the same length, and returns no other channel.
C20_RawDataIsInput ==
    \E k \in 1..Len(ChannelSets), raw \in {raw_data(self)} :
        /\ self.channels = ChannelSets[k].channels
        /\ raw.exc = "none"
        /\ DOMAIN raw.val = DOMAIN ChannelSets[k].channels
        /\ \A name \in DOMAIN raw.val :
              LET input == ChannelSets[k].channels[name]
                  data == raw.val[name]
              IN  /\ DOMAIN data = {"Time", "Amplitude"}
                  /\ Len(data.Time) = Len(input.Time)
                  /\ Len(data.Amplitude) = Len(input.Amplitude)
                  /\ \A i \in 1..Len(input.Time) :
                        data.Time[i] = RoundFloat(input.Time[i])
                  /\ \A i \in 1..Len(input.Amplitude) :
                        data.Amplitude[i] = RoundFloat(input.Amplitude[i])

C20_Witness ==
    /\ ret.op = "raw_data"
    /\ ret.exc = "none"
    /\ self.params["cut_second"] = R(1)
    /\ "smoothed_data" \in DOMAIN self._precomputed
    /\ "CH2" \in DOMAIN ret.val
    /\ Len(ret.val["CH2"].Amplitude) = NumSamples
    /\ ret.val["CH2"].Amplitude[1] = RoundFloat(R(-2))
    /\ ret.val["CH2"].Time[NumSamples] = RoundFloat(R(NumSamples - 1))

\* the first 0-based index at which xs attains its maximum
FirstIndexOfMax(xs) ==
    CHOOSE i \in 0..(Len(xs) - 1) :
        /\ \A j \in 1..Len(xs) : RLe(xs[j], xs[i + 1])
        /\ \A j \in 1..i : ~RLe(xs[i + 1], xs[j])

\* cut_second / time_step truncated toward zero, 0 when time_step <= 0
OffsetPoints(time) ==
    IF RLt(R(0), RSub(time[2], time[1]))
    THEN Trunc(RDiv(self.params["cut_second"], RSub(time[2], time[1])))
    ELSE 0

PointsToCrop(signal_start) ==
    LET time_step == RSub(ReferenceChannel.Time[2], ReferenceChannel.Time[1])
        available == Len(ReferenceChannel.Time) - signal_start
        requested == IF RLt(R(0), time_step)
                     THEN Trunc(RDiv(self.params["record_time"], time_step))
                     ELSE 0
        smaller == IF requested < available THEN requested ELSE available
    IN  IF smaller < 10 THEN available ELSE smaller

\* xs restricted to the 0-based indices [a, a + n)
Restricted(xs, a, n) ==
    LET last == IF a + n < Len(xs) THEN a + n ELSE Len(xs)
    IN  [i \in 1..(IF last > a THEN last - a ELSE 0) |-> xs[a + i]]

\* C22: for a valid reference channel, cropped_data of every channel is that
\* channel's smoothed record restricted to the indices
\* [signal_start, signal_start + points_to_crop), one index pair derived from
\* the reference channel serving all channels, with points_to_crop the
\* smaller of trunc(record_time / time_step) and total_points - signal_start,
\* replaced by total_points - signal_start when that is below 10.
C22_CropIsRestriction ==
    ("signal_start_channel" \in DOMAIN self.params
        /\ self.params["signal_start_channel"] \in DOMAIN self.channels
        /\ Len(ReferenceChannel.Time) >= 2) =>
        \E located \in {_get_signal_start_index(self)},
           smoothed \in {smoothed_data(self)},
           cropped \in {cropped_data(self)} :
            /\ located.exc = "none" /\ smoothed.exc = "none" /\ cropped.exc = "none"
            /\ DOMAIN cropped.val = DOMAIN self.channels
            /\ \A name \in DOMAIN cropped.val :
                  /\ DOMAIN cropped.val[name] = DOMAIN smoothed.val[name]
                  /\ \A column \in DOMAIN cropped.val[name] :
                        cropped.val[name][column]
                          = Restricted(smoothed.val[name][column], located.val,
                                       PointsToCrop(located.val))

C22_Witness ==
    /\ ret.op = "cropped_data"
    /\ ret.exc = "none"
    /\ self.params["signal_start_channel"] = "CH1"
    /\ "CH2" \in DOMAIN self.channels
    /\ Len(self.channels["CH2"].Time) < Len(self.channels["CH1"].Time)
    /\ _get_signal_start_index(self).val = 2
    /\ PointsToCrop(2) = 10
    /\ Len(ret.val["CH1"].Smoothed) = 10
    /\ Len(ret.val["CH2"].Smoothed) = Len(self.channels["CH2"].Time) - 2
    /\ ret.val["CH1"].Time[1] = RoundFloat(R(2))

\* C23: for every channel in every reachable state, the freq array and the
\* amplitude array of the channel in freqresponse_linear and in
\* freqresponse_dB have one length, the length of the channel's cropped
\* record, also when the channels of the mapping differ in sample count.
C23_DerivedLengths ==
    \E cropped \in {cropped_data(self)},
       linear \in {freqresponse_linear(self)},
       dB \in {freqresponse_dB(self)} :
        (cropped.exc = "none" /\ linear.exc = "none" /\ dB.exc = "none") =>
            \A name \in DOMAIN cropped.val :
                /\ Len(linear.val[name].freq) = Len(cropped.val[name].Time)
                /\ Len(linear.val[name].amplitude) = Len(cropped.val[name].Time)
                /\ Len(dB.val[name].freq) = Len(cropped.val[name].Time)
                /\ Len(dB.val[name].db_amplitude) = Len(cropped.val[name].Time)

\* start_freq + ((end_freq - start_freq) / record_time) * (time[i] - time[0])
\* from the current parameter set, over a time axis
MappedAxis(time) ==
    [i \in 1..Len(time) |->
        RAdd(self.params["start_freq"],
             RMul(RDiv(RSub(self.params["end_freq"], self.params["start_freq"]),
                       self.params["record_time"]),
                  RSub(time[i], time[1])))]

\* C24: the frequency axis is freq[i] = start_freq + (bandwidth / record_time)
\* * (time[i] - time[0]) over the cropped time axis of the first channel of
\* the mapping, bandwidth = end_freq - start_freq of the current parameter
\* set; freq[0] is start_freq; and every channel carries this one axis in the
\* linear and in the dB response.
C24_FrequencyAxis ==
    \E cropped \in {_get_cropped_data(self)},
       response \in {_get_freq_response_data(self)},
       linear \in {freqresponse_linear(self)} :
        (cropped.exc = "none" /\ response.exc = "none") =>
            LET axis == MappedAxis(cropped.val[self.channel_order[1]].Time)
            IN  /\ Len(axis) > 0
                /\ axis[1] = self.params["start_freq"]
                /\ self.bandwidth = RSub(self.params["end_freq"],
                                         self.params["start_freq"])
                /\ linear.exc = "none"
                /\ \A name \in DOMAIN cropped.val :
                      /\ response.val.linear[name].freq = axis
                      /\ response.val.dB[name].freq = axis
                      /\ linear.val[name].freq = RoundArray(axis)

C24_Witness ==
    /\ ret.op = "freqresponse_linear"
    /\ ret.exc = "none"
    /\ self.params["end_freq"] = R(5)
    /\ self.params["record_time"] = R(10)
    /\ "CH2" \in DOMAIN ret.val
    /\ ret.val["CH2"].freq = ret.val["CH1"].freq
    /\ ret.val["CH1"].freq[1] = RoundFloat(R(1))
    /\ ret.val["CH1"].freq[2] = RoundFloat(Rat(14, 10))
    /\ self._cache["cropped_data"]["CH1"].Time[1] # R(0)

\* C25: for every channel, resonance_frequency is the frequency at the first
\* index at which the channel's linear response amplitude attains its maximum
\* over the crop window.
C25_ResonanceAtFirstPeak ==
    \E response \in {_get_freq_response_data(self)},
       params \in {_get_channel_parameters(self)},
       shown \in {channel_parameters(self)} :
        (response.exc = "none" /\ params.exc = "none") =>
            /\ shown.exc = "none"
            /\ \A name \in DOMAIN params.val :
                  LET data == response.val.linear[name]
                      first == FirstIndexOfMax(data.amplitude)
                  IN  /\ params.val[name].resonance_frequency = data.freq[first + 1]
                      /\ shown.val[name].resonance_frequency
                           = RoundFloat(data.freq[first + 1])

C25_Witness ==
    /\ ret.op = "channel_parameters"
    /\ ret.exc = "none"
    /\ "CH2" \in DOMAIN ret.val
    /\ LET data == self._cache["freq_response"].linear["CH2"]
       IN  /\ Len(data.amplitude) >= 2
           /\ \A i \in 1..Len(data.amplitude) : data.amplitude[i] = data.amplitude[1]
           /\ data.freq[Len(data.amplitude)] # data.freq[1]
           /\ ret.val["CH2"].resonance_frequency = RoundFloat(data.freq[1])
    /\ LET data == self._cache["freq_response"].linear["CH1"]
       IN  /\ FirstIndexOfMax(data.amplitude) > 0
           /\ ret.val["CH1"].resonance_frequency
                = RoundFloat(data.freq[FirstIndexOfMax(data.amplitude) + 1])

\* the band a set of 0-based samples spans on a frequency axis: from the
\* first to the last of them
SpannedBand(freq, samples) ==
    LET low_idx == CHOOSE i \in samples : \A j \in samples : i <= j
        high_idx == CHOOSE i \in samples : \A j \in samples : j <= i
    IN  [range |-> <<freq[low_idx + 1], freq[high_idx + 1]>>,
         bandwidth |-> RSub(freq[high_idx + 1], freq[low_idx + 1])]

\* some sample between the first and the last of samples is not among them
HasGap(samples) ==
    \E i \in samples, k \in samples : \E j \in (i + 1)..(k - 1) : j \notin samples

\* C26: for the half-power threshold (0.707 * max_amp) and for the fixed
\* threshold (fixedlevel) alike, low_idx and high_idx are the first and the
\* last index over the whole response with amplitude >= threshold (samples
\* between them may be below it), the range is (freq[low_idx],
\* freq[high_idx]) and the bandwidth is freq[high_idx] - freq[low_idx].
C26_BandSpansFirstToLast ==
    \E response \in {_get_freq_response_data(self)},
       params \in {_get_channel_parameters(self)} :
        (response.exc = "none" /\ params.exc = "none") =>
            \A name \in DOMAIN params.val :
                LET data == response.val.linear[name]
                    half == HalfPowerSamples(data.amplitude)
                    fixed == FixedLevelSamples(data.amplitude,
                                               self.params["fixedlevel"])
                    p == params.val[name]
                IN  /\ half # {} =>
                          /\ p.bandwidth_707_range = SpannedBand(data.freq, half).range
                          /\ p.bandwidth_707 = SpannedBand(data.freq, half).bandwidth
                    /\ fixed # {} =>
                          /\ p.bandwidth_fixed_range = SpannedBand(data.freq, fixed).range
                          /\ p.bandwidth_fixed = SpannedBand(data.freq, fixed).bandwidth

C26_Witness ==
    /\ ret.op = "channel_parameters"
    /\ ret.exc = "none"
    /\ LET data == self._cache["freq_response"].linear["CH1"]
           half == HalfPowerSamples(data.amplitude)
           fixed == FixedLevelSamples(data.amplitude, self.params["fixedlevel"])
       IN  /\ HasGap(half)
           /\ HasGap(fixed)
           /\ \E i \in fixed : data.amplitude[i + 1] = self.params["fixedlevel"]
           /\ ret.val["CH1"].bandwidth_707
                = RoundFloat(SpannedBand(data.freq, half).bandwidth)
           /\ ret.val["CH1"].bandwidth_fixed
                = RoundFloat(SpannedBand(data.freq, fixed).bandwidth)
           /\ ret.val["CH1"].bandwidth_fixed # RoundFloat(R(0))

\* |x| of a float
Magnitude(x) == IF x[1] < 0 THEN <<0 - x[1], x[2]>> ELSE x

\* the arithmetic mean of xs[lo .. hi], 1-based and inclusive
MeanOver(xs, lo, hi) == RDiv(SumRange(xs, lo, hi), R(hi - lo + 1))

\* C27: for every channel of n samples and every index i,
\* abs_amplitude[i] = |amplitude[i]| and smoothed[i] is the arithmetic mean of
\* abs_amplitude[i .. min(i + 14, n - 1)], a forward-looking window of at
\* most 15 samples that shrinks near the end, so that
\* smoothed[n - 1] = abs_amplitude[n - 1]; it is not the backward-looking
\* mean of abs_amplitude[max(0, i - 14) .. i].
C27_ForwardLookingMean ==
    \E smoothed \in {_precompute_smoothed_data(self)} :
        /\ smoothed.exc = "none"
        /\ DOMAIN smoothed.val = DOMAIN self.channels
        /\ \A name \in DOMAIN smoothed.val :
              LET amplitude == self.channels[name].Amplitude
                  data == smoothed.val[name]
                  n == Len(amplitude)
              IN  /\ Len(data.ABS_Amplitude) = n
                  /\ Len(data.Smoothed) = n
                  /\ \A i \in 1..n :
                        /\ data.ABS_Amplitude[i] = Magnitude(amplitude[i])
                        /\ data.Smoothed[i]
                             = MeanOver(data.ABS_Amplitude, i,
                                        IF i + 14 < n THEN i + 14 ELSE n)
                  /\ n > 0 => data.Smoothed[n] = data.ABS_Amplitude[n]
                  /\ \E i \in 1..n :
                        data.Smoothed[i]
                          # MeanOver(data.ABS_Amplitude,
                                     IF i - 14 > 1 THEN i - 14 ELSE 1, i)

C27_Witness ==
    /\ "smoothed_data" \in DOMAIN self._precomputed
    /\ ret.op = "_get_signal_start_index"
    /\ LET data == self._precomputed["smoothed_data"]["REF"]
       IN  /\ Len(data.Smoothed) > 30
           /\ data.Amplitude[508] = R(-2)
           /\ data.ABS_Amplitude[508] = R(2)
           /\ data.Smoothed[494] = Rat(3, 15)
           /\ data.Smoothed[501] = Rat(3, 15)
           /\ data.Smoothed[502] = Rat(2, 15)
           /\ data.Smoothed[509] = R(0)
           /\ data.Smoothed[Len(data.Smoothed)] = R(0)

\* signal_start_channel names a channel of the mapping
ReferenceNamesChannel(p) ==
    /\ "signal_start_channel" \in DOMAIN p.params
    /\ p.params["signal_start_channel"] \in DOMAIN p.channels

\* C28: if signal_start_channel names an existing channel, it still names an
\* existing channel after every update_params and set_signal_start_channel
\* call: no public mutating operation, update_params with a
\* signal_start_channel key included, installs a reference channel that is
\* not in the mapping.
C28_ReferenceStaysValid ==
    [][ReferenceNamesChannel(self) => ReferenceNamesChannel(self')]_vars

\* the time stamps of every channel are uniformly spaced
UniformlySpaced ==
    \A name \in DOMAIN self.channels :
        LET time == self.channels[name].Time
        IN  \A i \in 2..(Len(time) - 1) :
                RSub(time[i + 1], time[i]) = RSub(time[2], time[1])

\* C29: for uniformly spaced time samples, a valid reference channel,
\* record_time > 0 and end_freq >= start_freq, every frequency of the mapped
\* axis lies in [start_freq, end_freq], also when the crop floor
\* (points_to_crop < 10) replaces the requested crop length by
\* max_possible_points.
C29_AxisWithinSweep ==
    (/\ UniformlySpaced
     /\ ReferenceNamesChannel(self)
     /\ RLt(R(0), self.params["record_time"])
     /\ RLe(self.params["start_freq"], self.params["end_freq"])) =>
        \E response \in {_get_freq_response_data(self)} :
            response.exc = "none" =>
                \A name \in DOMAIN response.val.linear :
                    \A i \in 1..Len(response.val.linear[name].freq) :
                        /\ RLe(self.params["start_freq"],
                               response.val.linear[name].freq[i])
                        /\ RLe(response.val.linear[name].freq[i],
                               self.params["end_freq"])

\* the memo entry key is what the stage computes on a newly constructed
\* processor over the same channels and the current parameter set
ComputedNow(key, computed) ==
    key \in DOMAIN self._cache =>
        /\ computed.exc = "none"
        /\ self._cache[key] = computed.val

\* C30: in every state reached by sequential use of the public operations,
\* the Tier-1 memo entries respect the dependency chain (channel_parameters
\* cached implies freq_response cached, freq_response cached implies
\* cropped_data cached), and every cached Tier-1 entry was computed from the
\* current parameter set.
C30_Tier1Chain ==
    /\ "channel_parameters" \in DOMAIN self._cache
          => "freq_response" \in DOMAIN self._cache
    /\ "freq_response" \in DOMAIN self._cache
          => "cropped_data" \in DOMAIN self._cache
    /\ \E fresh \in {Fresh(self)} :
          /\ ComputedNow("cropped_data", _get_cropped_data(fresh))
          /\ ComputedNow("freq_response", _get_freq_response_data(fresh))
          /\ ComputedNow("channel_parameters", _get_channel_parameters(fresh))

C30_Witness ==
    /\ DOMAIN self._cache = Tier1Keys
    /\ ret.op = "channel_parameters"
    /\ ret.exc = "none"
    /\ self.params["gain"] = R(2)
    /\ "signal_start_channel" \in DOMAIN self.params
    /\ "CH1" \in DOMAIN self._cache["channel_parameters"]
    /\ self._cache["freq_response"].linear["CH1"].amplitude
         = [i \in 1..Len(self._cache["cropped_data"]["CH1"].Smoothed) |->
               RMul(self._cache["cropped_data"]["CH1"].Smoothed[i], R(2))]

====
